---- MODULE Spec2Model ----
(***************************************************************************)
(* Model of the AI request orchestration and tiered model routing of the  *)
(* mikamo portal backend: the tier policy resolver and backend factory    *)
(* (app/services/ai/client.py), the Anthropic adapter, the staff-QA and   *)
(* management services, the issue/insight extractor and the chat turn     *)
(* handler with its conversation store (app/api/ai_chat.py).              *)
(***************************************************************************)
EXTENDS Integers, Sequences, FiniteSets, TLC

(***************************************************************************)
(* Strings whose characters matter (purpose names) are sequences of       *)
(* one-character strings, so that str.lower() is computed, not assumed.   *)
(***************************************************************************)
UpperChars == <<"A","B","C","D","E","F","G","H","I","J","K","L","M","N","O","P","Q","R","S","T","U","V","W","X","Y","Z">>
LowerChars == <<"a","b","c","d","e","f","g","h","i","j","k","l","m","n","o","p","q","r","s","t","u","v","w","x","y","z">>

\* str.lower() on one character
LowerChar(c) ==
    IF \E i \in 1..Len(UpperChars) : UpperChars[i] = c
    THEN LowerChars[CHOOSE i \in 1..Len(UpperChars) : UpperChars[i] = c]
    ELSE c

\* str.upper() on one character (used to build the inputs only)
UpperChar(c) ==
    IF \E i \in 1..Len(LowerChars) : LowerChars[i] = c
    THEN UpperChars[CHOOSE i \in 1..Len(LowerChars) : LowerChars[i] = c]
    ELSE c

\* str.lower()
StrLower(s) == [i \in 1..Len(s) |-> LowerChar(s[i])]

StrUpper(s) == [i \in 1..Len(s) |-> UpperChar(s[i])]

\* str.capitalize(): first character upper, as in "Staff_qa"
StrCapitalize(s) == [i \in 1..Len(s) |-> IF i = 1 THEN UpperChar(s[i]) ELSE s[i]]

(***************************************************************************)
(* AiTier and AiTierPolicy                                                 *)
(***************************************************************************)
BASIC == "basic"
STANDARD == "standard"
PREMIUM == "premium"
AiTier == {BASIC, STANDARD, PREMIUM}

POLICY_ALL == "all"
POLICY_STANDARD_MAX == "standard_max"
POLICY_BASIC_ONLY == "basic_only"
AiTierPolicy == {POLICY_ALL, POLICY_STANDARD_MAX, POLICY_BASIC_ONLY}

\* values that are not members of the enumeration (the comparison with the
\* enumeration members is case-sensitive)
UnknownPolicies == {"ALL", "premium_only"}
PolicyInputs == AiTierPolicy \cup UnknownPolicies

K_shift_planning == <<"s","h","i","f","t","_","p","l","a","n","n","i","n","g">>
K_log_summary == <<"l","o","g","_","s","u","m","m","a","r","y">>
K_simple_task == <<"s","i","m","p","l","e","_","t","a","s","k">>
K_schedule == <<"s","c","h","e","d","u","l","e">>
K_staff_qa == <<"s","t","a","f","f","_","q","a">>
K_knowledge_search == <<"k","n","o","w","l","e","d","g","e","_","s","e","a","r","c","h">>
K_customer_support == <<"c","u","s","t","o","m","e","r","_","s","u","p","p","o","r","t">>
K_daily_report == <<"d","a","i","l","y","_","r","e","p","o","r","t">>
K_default == <<"d","e","f","a","u","l","t">>
K_management_decision == <<"m","a","n","a","g","e","m","e","n","t","_","d","e","c","i","s","i","o","n">>
K_dx_report == <<"d","x","_","r","e","p","o","r","t">>
K_strategic_planning == <<"s","t","r","a","t","e","g","i","c","_","p","l","a","n","n","i","n","g">>
K_executive_summary == <<"e","x","e","c","u","t","i","v","e","_","s","u","m","m","a","r","y">>
K_business_analysis == <<"b","u","s","i","n","e","s","s","_","a","n","a","l","y","s","i","s">>

\* the dictionary PURPOSE_TO_TIER, as its (key, value) items
PURPOSE_TO_TIER ==
    { <<K_shift_planning, BASIC>>,
      <<K_log_summary, BASIC>>,
      <<K_simple_task, BASIC>>,
      <<K_schedule, BASIC>>,
      <<K_staff_qa, STANDARD>>,
      <<K_knowledge_search, STANDARD>>,
      <<K_customer_support, STANDARD>>,
      <<K_daily_report, STANDARD>>,
      <<K_default, STANDARD>>,
      <<K_management_decision, PREMIUM>>,
      <<K_dx_report, PREMIUM>>,
      <<K_strategic_planning, PREMIUM>>,
      <<K_executive_summary, PREMIUM>>,
      <<K_business_analysis, PREMIUM>> }

\* dict.get(key, default)
DictGet(d, key, default) ==
    IF \E kv \in d : kv[1] = key
    THEN (CHOOSE kv \in d : kv[1] = key)[2]
    ELSE default

\* mutant of get_tier_for_purpose: the lookup key is not lower-cased
GetTierForPurposeNoLower(purpose) == DictGet(PURPOSE_TO_TIER, purpose, STANDARD)

\* AiClientFactory.get_tier_for_purpose
get_tier_for_purpose(purpose) == DictGet(PURPOSE_TO_TIER, StrLower(purpose), STANDARD)

\* mutant of apply_tier_policy: STANDARD_MAX returns STANDARD for every tier
ApplyTierPolicyStdMaxForcesStandard(tier, tier_policy) ==
    IF tier_policy = POLICY_ALL THEN tier
    ELSE IF tier_policy = POLICY_STANDARD_MAX THEN STANDARD
    ELSE IF tier_policy = POLICY_BASIC_ONLY
         THEN (IF tier # BASIC THEN BASIC ELSE tier)
    ELSE STANDARD

\* mutant of apply_tier_policy: BASIC_ONLY caps at STANDARD like STANDARD_MAX
ApplyTierPolicyBasicOnlyAsStdMax(tier, tier_policy) ==
    IF tier_policy = POLICY_ALL THEN tier
    ELSE IF tier_policy \in {POLICY_STANDARD_MAX, POLICY_BASIC_ONLY}
         THEN (IF tier = PREMIUM THEN STANDARD ELSE tier)
    ELSE STANDARD

\* AiClientFactory.apply_tier_policy
apply_tier_policy(tier, tier_policy) ==
    IF tier_policy = POLICY_ALL THEN tier
    ELSE IF tier_policy = POLICY_STANDARD_MAX
         THEN (IF tier = PREMIUM THEN STANDARD ELSE tier)
    ELSE IF tier_policy = POLICY_BASIC_ONLY
         THEN (IF tier # BASIC THEN BASIC ELSE tier)
    ELSE STANDARD

(***************************************************************************)
(* Settings (app/core/config.py).  An unset Optional[str] is the empty    *)
(* string, which is falsy like None.  Temperatures are in tenths.         *)
(***************************************************************************)
None == ""

ANTHROPIC_MAX_TOKENS_BASIC == 500
ANTHROPIC_TEMPERATURE_BASIC == 3
ANTHROPIC_MAX_TOKENS_STANDARD == 1000
ANTHROPIC_TEMPERATURE_STANDARD == 5
ANTHROPIC_MAX_TOKENS_PREMIUM == 4000
ANTHROPIC_TEMPERATURE_PREMIUM == 7
AI_MAX_TOKENS_STAFF == 1000
AI_TEMPERATURE_STAFF == 5
\* AnthropicClient.__init__ keyword defaults
CLIENT_DEFAULT_MAX_TOKENS == 1000
CLIENT_DEFAULT_TEMPERATURE == 5
\* the last-resort model name of get_staff_client and AnthropicClient.__init__
FALLBACK_MODEL == "claude-3-haiku-20240307"

\* a fully configured deployment
SettingsFull ==
    [ ANTHROPIC_API_KEY |-> "sk-key",
      ANTHROPIC_MODEL_BASIC |-> "model-basic",
      ANTHROPIC_MODEL_STANDARD |-> "model-standard",
      ANTHROPIC_MODEL_PREMIUM |-> "model-premium",
      AI_MODEL_STAFF |-> None ]

\* the deployments considered: complete, without credential, and with one
\* tier's model identifier missing
SettingsChoices ==
    { SettingsFull,
      [SettingsFull EXCEPT !.ANTHROPIC_API_KEY = None],
      [SettingsFull EXCEPT !.ANTHROPIC_MODEL_BASIC = None],
      [SettingsFull EXCEPT !.ANTHROPIC_MODEL_STANDARD = None] }

(***************************************************************************)
(* Exceptions.  A message is the sequence of its text pieces, cut so that *)
(* every occurrence of a substring the code searches for (":",            *)
(* "ANTHROPIC_API_KEY", "model not configured") is a piece of its own.    *)
(***************************************************************************)
TOK_COLON == ":"
TOK_API_KEY == "ANTHROPIC_API_KEY"
TOK_MODEL_NOT_CONFIGURED == "model not configured"

\* `needle in message`
Contains(msg, needle) == \E i \in 1..Len(msg) : msg[i] = needle

\* message.split(":", 1): the part before and the part after the first colon
SplitColon(msg) ==
    LET i == CHOOSE k \in 1..Len(msg) :
                 /\ msg[k] = TOK_COLON
                 /\ \A j \in 1..(k-1) : msg[j] # TOK_COLON
    IN  <<SubSeq(msg, 1, i-1), SubSeq(msg, i+1, Len(msg))>>

ValueError(msg) == [type |-> "ValueError", msg |-> msg]
\* httpx.HTTPStatusError re-raised for a status other than 401, 429, 400
HTTPStatusError(code) == [type |-> "HTTPStatusError", msg |-> <<"Server error ", code>>]
\* any other exception of the HTTP client (connection refused, reset, ...)
ConnectError == [type |-> "ConnectError", msg |-> <<"All connection attempts failed">>]
NoError == [type |-> "none", msg |-> <<>>]

MsgKeyNotSet ==
    <<TOK_API_KEY, " is not set. Please configure it via environment variable or Secret Manager.">>
MsgKeyNotSetAdapter ==
    <<TOK_API_KEY, " is not set. Please configure it via environment variable or Secret Manager (MIKAMO_ANTHROPIC_KEY).">>
\* tier.value.upper()
TierUpper(tier) ==
    CASE tier = BASIC -> "BASIC"
      [] tier = STANDARD -> "STANDARD"
      [] OTHER -> "PREMIUM"
MsgModelNotConfigured(tier) ==
    <<"AI ", TOK_MODEL_NOT_CONFIGURED, " for tier '", tier,
      "'. Please set ", "ANTHROPIC_MODEL_", TierUpper(tier), " environment variable.">>
MsgAuthFailed ==
    <<"Anthropic API authentication failed. Please check ", TOK_API_KEY, " is correctly set.">>
MsgRateLimit == <<"Anthropic API rate limit exceeded. Please try again later.">>
MsgBadRequest(detail) == <<"Anthropic API bad request", TOK_COLON, " ", detail>>
MsgTimeout ==
    <<"Anthropic API request timed out. The AI service may be experiencing high load.">>
MsgUnexpectedFormat == <<"Unexpected response format from Anthropic API">>
MsgStaffKey ==
    <<"ai_not_configured", TOK_COLON, " AI service is not configured; ask the administrator to set ",
      TOK_API_KEY, ".">>
MsgStaffModel ==
    <<"ai_not_configured", TOK_COLON,
      " AI model is not set up; ask the administrator to set ANTHROPIC_MODEL_*.">>
MsgStaffError ==
    <<"ai_error", TOK_COLON,
      " The AI service had a problem; try again later.">>

(***************************************************************************)
(* Backend factory (AiClientFactory) and adapter (AnthropicClient).       *)
(* A constructor or call returns [ok, value, error].                      *)
(***************************************************************************)
Ok(v) == [ok |-> TRUE, value |-> v, error |-> NoError]
Raise(e) == [ok |-> FALSE, value |-> None, error |-> e]

\* Python `a or b` on strings
OrElse(a, b) == IF a # None THEN a ELSE b

\* AiClientFactory.get_tier_config
get_tier_config(cfg, tier) ==
    IF tier = BASIC
    THEN [model |-> cfg.ANTHROPIC_MODEL_BASIC,
          max_tokens |-> ANTHROPIC_MAX_TOKENS_BASIC,
          temperature |-> ANTHROPIC_TEMPERATURE_BASIC]
    ELSE IF tier = STANDARD
    THEN [model |-> cfg.ANTHROPIC_MODEL_STANDARD,
          max_tokens |-> ANTHROPIC_MAX_TOKENS_STANDARD,
          temperature |-> ANTHROPIC_TEMPERATURE_STANDARD]
    ELSE [model |-> cfg.ANTHROPIC_MODEL_PREMIUM,
          max_tokens |-> ANTHROPIC_MAX_TOKENS_PREMIUM,
          temperature |-> ANTHROPIC_TEMPERATURE_PREMIUM]

\* AnthropicClient.__init__
AnthropicClient(cfg, model, default_max_tokens, default_temperature) ==
    [ api_key |-> cfg.ANTHROPIC_API_KEY,
      model |-> OrElse(model, OrElse(cfg.ANTHROPIC_MODEL_STANDARD, FALLBACK_MODEL)),
      default_max_tokens |-> default_max_tokens,
      default_temperature |-> default_temperature ]

\* mutant of create_for_purpose_with_policy: the model identifier is not
\* checked
CreateForPurposeWithPolicyNoModelCheck(cfg, purpose, tier_policy) ==
    LET tier == get_tier_for_purpose(purpose)
        effective_tier == apply_tier_policy(tier, tier_policy)
        config == get_tier_config(cfg, effective_tier)
    IN  IF cfg.ANTHROPIC_API_KEY = None
        THEN Raise(ValueError(MsgKeyNotSet))
        ELSE Ok(AnthropicClient(cfg, config.model, config.max_tokens, config.temperature))

\* AiClientFactory.create_for_purpose_with_policy
create_for_purpose_with_policy(cfg, purpose, tier_policy) ==
    LET tier == get_tier_for_purpose(purpose)
        effective_tier == apply_tier_policy(tier, tier_policy)
        config == get_tier_config(cfg, effective_tier)
    IN  IF config.model = None
        THEN Raise(ValueError(MsgModelNotConfigured(effective_tier)))
        ELSE IF cfg.ANTHROPIC_API_KEY = None
        THEN Raise(ValueError(MsgKeyNotSet))
        ELSE Ok(AnthropicClient(cfg, config.model, config.max_tokens, config.temperature))

\* AiClientFactory.create with the default provider "anthropic"
create(cfg) ==
    Ok(AnthropicClient(cfg, OrElse(cfg.ANTHROPIC_MODEL_STANDARD, cfg.AI_MODEL_STAFF),
                       CLIENT_DEFAULT_MAX_TOKENS, CLIENT_DEFAULT_TEMPERATURE))

\* AiClientFactory.get_staff_client with the default provider "anthropic"
get_staff_client(cfg) ==
    LET model == OrElse(cfg.ANTHROPIC_MODEL_STANDARD,
                        OrElse(cfg.AI_MODEL_STAFF, FALLBACK_MODEL))
    IN  IF cfg.ANTHROPIC_API_KEY = None
        THEN Raise(ValueError(MsgKeyNotSet))
        ELSE Ok(AnthropicClient(cfg, model, AI_MAX_TOKENS_STAFF, AI_TEMPERATURE_STAFF))

\* the hard ceiling of AnthropicClient.generate_reply
MAX_TOKENS_LIMIT == 8000

\* Python `a or b` on numbers (0 is falsy like None)
OrElseNum(a, b) == IF a # 0 THEN a ELSE b

\* mutant of AdapterRequest: the requested max_tokens is sent as it is
AdapterRequestNoCap(client, options) ==
    IF client.api_key = None
    THEN Raise(ValueError(MsgKeyNotSetAdapter))
    ELSE Ok([ model |-> client.model,
              max_tokens |-> OrElseNum(options.max_tokens, client.default_max_tokens),
              temperature |-> OrElseNum(options.temperature,
                                        client.default_temperature) ])

\* AnthropicClient.generate_reply, up to the network request: the payload that
\* is posted, or the error raised before anything is sent
AdapterRequest(client, options) ==
    IF client.api_key = None
    THEN Raise(ValueError(MsgKeyNotSetAdapter))
    ELSE LET requested == OrElseNum(options.max_tokens, client.default_max_tokens)
             temperature == OrElseNum(options.temperature, client.default_temperature)
         IN  Ok([ model |-> client.model,
                  max_tokens |-> IF requested > MAX_TOKENS_LIMIT
                                 THEN MAX_TOKENS_LIMIT ELSE requested,
                  temperature |-> temperature ])

\* what the provider can do with one request
OutcomeKinds == {"ok", "no_content", "401", "429", "400", "500", "timeout", "connect"}

\* AnthropicClient.generate_reply, from the provider's response on: the reply
\* text or the exception that leaves the adapter
AdapterResponse(outcome) ==
    CASE outcome.kind = "ok" -> Ok(outcome.answer)
      [] outcome.kind = "no_content" -> Raise(ValueError(MsgUnexpectedFormat))
      [] outcome.kind = "401" -> Raise(ValueError(MsgAuthFailed))
      [] outcome.kind = "429" -> Raise(ValueError(MsgRateLimit))
      [] outcome.kind = "400" -> Raise(ValueError(MsgBadRequest(outcome.detail)))
      [] outcome.kind = "500" -> Raise(HTTPStatusError("500"))
      [] outcome.kind = "timeout" -> Raise(ValueError(MsgTimeout))
      [] OTHER -> Raise(ConnectError)

(***************************************************************************)
(* StaffQAService and AIServiceV2.  A tenant settings row is a record;    *)
(* NoSettings stands for the missing row.                                  *)
(***************************************************************************)
NoSettings == [exists |-> FALSE, ai_tier_policy |-> None, ai_max_tokens_override |-> 0]
SettingsRow(policy, override) ==
    [exists |-> TRUE, ai_tier_policy |-> policy, ai_max_tokens_override |-> override]

\* the options AIServiceV2.generate_answer passes to generate_reply
MGMT_MAX_TOKENS == 2000
MGMT_TEMPERATURE == 7

\* the service object: its client, the metadata kept for the usage log and the
\* options it passes to generate_reply
Service(client, purpose, tier, max_tokens, temperature) ==
    [ ai_client |-> client, purpose |-> purpose, effective_tier |-> tier,
      model_name |-> client.model,
      max_tokens |-> max_tokens, temperature |-> temperature ]

\* StaffQAService.__init__
StaffQAService(cfg, tenant_settings) ==
    LET purpose == K_staff_qa
        made == IF tenant_settings.exists /\ tenant_settings.ai_tier_policy # None
                THEN create_for_purpose_with_policy(cfg, purpose,
                                                    tenant_settings.ai_tier_policy)
                ELSE get_staff_client(cfg)
        tier == IF tenant_settings.exists /\ tenant_settings.ai_tier_policy # None
                THEN apply_tier_policy(get_tier_for_purpose(purpose),
                                       tenant_settings.ai_tier_policy)
                ELSE get_tier_for_purpose(purpose)
        max_tokens == IF tenant_settings.exists /\ tenant_settings.ai_max_tokens_override # 0
                      THEN tenant_settings.ai_max_tokens_override
                      ELSE AI_MAX_TOKENS_STAFF
    IN  IF made.ok
        THEN Ok(Service(made.value, purpose, tier, max_tokens, AI_TEMPERATURE_STAFF))
        ELSE made

\* AIServiceV2.__init__
AIServiceV2(cfg, tenant_settings) ==
    LET purpose == K_management_decision
        made == IF tenant_settings.exists /\ tenant_settings.ai_tier_policy # None
                THEN create_for_purpose_with_policy(cfg, purpose,
                                                    tenant_settings.ai_tier_policy)
                ELSE create(cfg)
        tier == IF tenant_settings.exists /\ tenant_settings.ai_tier_policy # None
                THEN apply_tier_policy(get_tier_for_purpose(purpose),
                                       tenant_settings.ai_tier_policy)
                ELSE get_tier_for_purpose(purpose)
    IN  IF made.ok
        THEN Ok(Service(made.value, purpose, tier, MGMT_MAX_TOKENS, MGMT_TEMPERATURE))
        ELSE made

\* the except clauses of StaffQAService.answer_staff_question: the exception
\* that leaves the method for an exception raised inside it
StaffRaise(e) ==
    IF e.type = "ValueError"
    THEN IF Contains(e.msg, TOK_API_KEY) THEN ValueError(MsgStaffKey)
         ELSE IF Contains(e.msg, TOK_MODEL_NOT_CONFIGURED) THEN ValueError(MsgStaffModel)
         ELSE e
    ELSE ValueError(MsgStaffError)

HTTP_201_CREATED == 201
HTTP_404_NOT_FOUND == 404
HTTP_500_INTERNAL_SERVER_ERROR == 500
HTTP_503_SERVICE_UNAVAILABLE == 503

\* `except ValueError` of create_ai_chat_v2 in staff-QA mode: the HTTP error
\* for a ValueError that reached the handler
StaffHttpError(e) ==
    IF Contains(e.msg, TOK_COLON)
    THEN [ status |-> HTTP_503_SERVICE_UNAVAILABLE,
           error_code |-> SplitColon(e.msg)[1],
           message |-> SplitColon(e.msg)[2] ]
    ELSE [ status |-> HTTP_500_INTERNAL_SERVER_ERROR,
           error_code |-> <<"ai_error">>,
           message |-> e.msg ]

\* an exception nobody catches becomes the framework's plain 500 response
UnhandledHttpError(e) ==
    [ status |-> HTTP_500_INTERNAL_SERVER_ERROR,
      error_code |-> <<"internal_server_error">>,
      message |-> <<"Internal Server Error">> ]

(***************************************************************************)
(* Texts of questions and answers.  A text is the sequence of its pieces: *)
(* a piece is one of the keywords the extractor searches for (the         *)
(* Japanese keywords are written in Latin transcription with the prefix   *)
(* jp_), the line break NL, or other wording.  Slicing text[:n] counts    *)
(* pieces.                                                                 *)
(***************************************************************************)
NL == "\n"

\* str.lower() on one piece: only Latin letters have case
PieceLower(p) == IF p = "EV" THEN "ev" ELSE p

\* text.lower()
TextLower(text) == [i \in 1..Len(text) |-> PieceLower(text[i])]

\* keyword in piece: a piece is a keyword or contains a shorter one
\* ("ima-sugu" contains "sugu")
PieceHas(p, kw) == p = kw \/ (p = "jp_imasugu" /\ kw = "jp_sugu")

\* any(kw in text for kw in keywords)
AnyKeyword(text, keywords) ==
    \E i \in 1..Len(text) : \E kw \in keywords : PieceHas(text[i], kw)

\* text[:n]
Prefix(text, n) == SubSeq(text, 1, IF Len(text) < n THEN Len(text) ELSE n)

\* text.split("\n")[0]
FirstLine(text) ==
    IF \E i \in 1..Len(text) : text[i] = NL
    THEN SubSeq(text, 1, (CHOOSE i \in 1..Len(text) :
                              /\ text[i] = NL
                              /\ \A j \in 1..(i-1) : text[j] # NL) - 1)
    ELSE text

(***************************************************************************)
(* Issue/insight extractor (app/services/issue_insight_extractor.py)      *)
(***************************************************************************)
ISSUE_KEYWORDS ==
    {"jp_koma", "jp_mondai", "jp_dekinai", "jp_wakaranai", "jp_dousureba", "jp_houhou",
     "jp_eraa", "jp_shippai", "jp_umakuikanai", "jp_kaizen", "jp_kadai"}
MENU_KEYWORDS == {"jp_menyuu", "jp_reshipi", "jp_tsukurikata", "jp_chouri"}
OPERATION_KEYWORDS == {"jp_tejun", "jp_opereeshon", "jp_sagyou", "jp_yarikata"}
COMPLAINT_KEYWORDS == {"jp_kureemu", "jp_kujou", "jp_fuman", "jp_monku"}
FUTURE_RISK_KEYWORDS ==
    {"jp_shourai", "jp_risuku", "jp_fuan", "jp_shinpai", "EV", "jp_denkijidousha"}
SALES_KEYWORDS == {"jp_uriage", "jp_ureru", "jp_nobasu", "jp_fuyasu", "jp_kikai"}
STAFFING_KEYWORDS == {"jp_jin_in", "jp_saiyou", "jp_sutaffu", "jp_hitode"}
RISK_KEYWORDS == {"jp_risuku", "jp_kiken", "jp_mondai", "jp_kadai", "jp_kenen", "jp_fuan"}
OPPORTUNITY_KEYWORDS ==
    {"jp_kikai", "jp_chansu", "jp_nobasu", "jp_kakudai", "jp_seichou", "jp_kanousei"}
IMPROVEMENT_KEYWORDS ==
    {"jp_kaizen", "jp_teian", "jp_suishou", "jp_osusume", "jp_tamesu", "jp_kentou"}
URGENCY_KEYWORDS == {"jp_juuyou", "jp_kinkyuu", "jp_soukyuu", "jp_sugu", "jp_imasugu"}
TRIVIAL_KEYWORDS == {"jp_keibi", "jp_chiisana", "jp_sukoshi"}

\* IssueTopic and InsightType: the enumeration values, spelled out so that
\* IssueTopic(s.lower()) is a lookup by value
IssueTopicValues ==
    { <<<<"m","e","n","u">>, "menu">>,
      <<<<"o","p","e","r","a","t","i","o","n">>, "operation">>,
      <<<<"c","u","s","t","o","m","e","r","_","c","o","m","p","l","a","i","n","t">>, "customer_complaint">>,
      <<<<"f","u","t","u","r","e","_","r","i","s","k">>, "future_risk">>,
      <<<<"s","a","l","e","s","_","o","p","p","o","r","t","u","n","i","t","y">>, "sales_opportunity">>,
      <<<<"s","t","a","f","f","i","n","g">>, "staffing">>,
      <<<<"o","t","h","e","r">>, "other">> }
InsightTypeValues ==
    { <<<<"r","i","s","k">>, "risk">>,
      <<<<"o","p","p","o","r","t","u","n","i","t","y">>, "opportunity">>,
      <<<<"i","m","p","r","o","v","e","m","e","n","t">>, "improvement">> }

TOPIC_MENU == "menu"
TOPIC_OPERATION == "operation"
TOPIC_CUSTOMER_COMPLAINT == "customer_complaint"
TOPIC_FUTURE_RISK == "future_risk"
TOPIC_SALES_OPPORTUNITY == "sales_opportunity"
TOPIC_STAFFING == "staffing"
TOPIC_OTHER == "other"
TYPE_RISK == "risk"
TYPE_OPPORTUNITY == "opportunity"
TYPE_IMPROVEMENT == "improvement"

\* Enum(value): is the spelled value a member, and which
IsEnumValue(values, chars) == \E kv \in values : kv[1] = chars
EnumOf(values, chars) == (CHOOSE kv \in values : kv[1] = chars)[2]

(***************************************************************************)
(* JSON values of the fenced block.  t is the JSON type; s holds a string *)
(* (pieces for free text, characters for topic and type), n an integer.   *)
(***************************************************************************)
JAbsent == [t |-> "absent", s |-> <<>>, n |-> 0]
JNull == [t |-> "null", s |-> <<>>, n |-> 0]
JStr(s) == [t |-> "str", s |-> s, n |-> 0]
JInt(n) == [t |-> "int", s |-> <<>>, n |-> n]

\* Python truthiness of a value
Truthy(v) ==
    CASE v.t = "str" -> v.s # <<>>
      [] v.t = "int" -> v.n # 0
      [] OTHER -> FALSE

JsonFields ==
    {"issue_title", "issue_description", "issue_topic",
     "insight_title", "insight_content", "insight_type", "insight_score"}

\* key in json_data
HasKey(obj, key) == obj[key].t # "absent"

\* json_data.get(key, default)
JsonGet(obj, key, default) == IF HasKey(obj, key) THEN obj[key] ELSE default

\* the fenced block of an answer: none, text that json.loads rejects, or an
\* object
NoBlock == [kind |-> "none", obj |-> [f \in JsonFields |-> JAbsent]]
MalformedBlock == [kind |-> "malformed", obj |-> [f \in JsonFields |-> JAbsent]]
ObjectBlock(obj) == [kind |-> "object", obj |-> obj]

TypeError == [type |-> "TypeError", msg |-> <<"unsupported operand">>]
AttributeError == [type |-> "AttributeError", msg |-> <<"object has no attribute">>]

NoIssue == [present |-> FALSE, title |-> JAbsent, description |-> JAbsent, topic |-> None]
NoInsight ==
    [present |-> FALSE, title |-> JAbsent, content |-> JAbsent, type |-> None, score |-> 0]

\* _is_issue_like
is_issue_like(question) == AnyKeyword(TextLower(question), ISSUE_KEYWORDS)

\* mutant of the keyword cascade: the complaint keywords are not looked for
TopicFromKeywordsNoComplaint(question) ==
    LET q == TextLower(question)
    IN  IF AnyKeyword(q, MENU_KEYWORDS) THEN TOPIC_MENU
        ELSE IF AnyKeyword(q, OPERATION_KEYWORDS) THEN TOPIC_OPERATION
        ELSE IF AnyKeyword(q, FUTURE_RISK_KEYWORDS) THEN TOPIC_FUTURE_RISK
        ELSE IF AnyKeyword(q, SALES_KEYWORDS) THEN TOPIC_SALES_OPPORTUNITY
        ELSE IF AnyKeyword(q, STAFFING_KEYWORDS) THEN TOPIC_STAFFING
        ELSE TOPIC_OTHER

\* the keyword cascade of _infer_issue_topic
TopicFromKeywords(question) ==
    LET q == TextLower(question)
    IN  IF AnyKeyword(q, MENU_KEYWORDS) THEN TOPIC_MENU
        ELSE IF AnyKeyword(q, OPERATION_KEYWORDS) THEN TOPIC_OPERATION
        ELSE IF AnyKeyword(q, COMPLAINT_KEYWORDS) THEN TOPIC_CUSTOMER_COMPLAINT
        ELSE IF AnyKeyword(q, FUTURE_RISK_KEYWORDS) THEN TOPIC_FUTURE_RISK
        ELSE IF AnyKeyword(q, SALES_KEYWORDS) THEN TOPIC_SALES_OPPORTUNITY
        ELSE IF AnyKeyword(q, STAFFING_KEYWORDS) THEN TOPIC_STAFFING
        ELSE TOPIC_OTHER

\* _infer_issue_topic: explicit_topic.lower() needs a string
infer_issue_topic(question, explicit_topic) ==
    IF Truthy(explicit_topic)
    THEN IF explicit_topic.t # "str"
         THEN Raise(AttributeError)
         ELSE IF IsEnumValue(IssueTopicValues, StrLower(explicit_topic.s))
         THEN Ok(EnumOf(IssueTopicValues, StrLower(explicit_topic.s)))
         ELSE Ok(TopicFromKeywords(question))
    ELSE Ok(TopicFromKeywords(question))

\* _infer_insight_type
infer_insight_type(insight_type_str) ==
    IF Truthy(insight_type_str)
    THEN IF insight_type_str.t # "str"
         THEN Raise(AttributeError)
         ELSE IF IsEnumValue(InsightTypeValues, StrLower(insight_type_str.s))
         THEN Ok(EnumOf(InsightTypeValues, StrLower(insight_type_str.s)))
         ELSE Ok(TYPE_IMPROVEMENT)
    ELSE Ok(TYPE_IMPROVEMENT)

Min(a, b) == IF a < b THEN a ELSE b
Max(a, b) == IF a > b THEN a ELSE b

\* mutant of HeuristicBase: the opportunity keywords are looked for before
\* the risk keywords
HeuristicBaseOpportunityFirst(t) ==
    IF AnyKeyword(t, OPPORTUNITY_KEYWORDS) THEN [type |-> TYPE_OPPORTUNITY, score |-> 65]
    ELSE IF AnyKeyword(t, RISK_KEYWORDS) THEN [type |-> TYPE_RISK, score |-> 70]
    ELSE IF AnyKeyword(t, IMPROVEMENT_KEYWORDS) THEN [type |-> TYPE_IMPROVEMENT, score |-> 60]
    ELSE [type |-> TYPE_IMPROVEMENT, score |-> 50]

\* the score and type computed by _extract_insight_from_text
HeuristicBase(t) ==
    IF AnyKeyword(t, RISK_KEYWORDS) THEN [type |-> TYPE_RISK, score |-> 70]
    ELSE IF AnyKeyword(t, OPPORTUNITY_KEYWORDS) THEN [type |-> TYPE_OPPORTUNITY, score |-> 65]
    ELSE IF AnyKeyword(t, IMPROVEMENT_KEYWORDS) THEN [type |-> TYPE_IMPROVEMENT, score |-> 60]
    ELSE [type |-> TYPE_IMPROVEMENT, score |-> 50]

HeuristicScore(t) ==
    LET base == HeuristicBase(t).score
        s1 == IF AnyKeyword(t, URGENCY_KEYWORDS) THEN Min(100, base + 20) ELSE base
    IN  IF AnyKeyword(t, TRIVIAL_KEYWORDS) THEN Max(0, s1 - 10) ELSE s1

\* _extract_insight_from_text
extract_insight_from_text(text) ==
    LET t == TextLower(text)
        score == HeuristicScore(t)
    IN  IF score < 60
        THEN NoInsight
        ELSE [ present |-> TRUE,
               title |-> JStr(Prefix(FirstLine(text), 100)),
               content |-> JStr(Prefix(text, 500)),
               type |-> HeuristicBase(t).type,
               score |-> score ]

\* the keyword path of extract_issue_insight_from_ai_response
ExtractHeuristic(answer, question) ==
    LET insight_info == extract_insight_from_text(answer.text)
    IN  Ok([ issue |-> IF is_issue_like(question)
                       THEN [ present |-> TRUE,
                              title |-> JStr(Prefix(question, 100)),
                              description |-> JStr(question),
                              topic |-> TopicFromKeywords(question) ]
                       ELSE NoIssue,
             insight |-> IF insight_info.present /\ insight_info.score >= 60
                         THEN insight_info ELSE NoInsight ])

\* the structured path of extract_issue_insight_from_ai_response, for a block
\* that json.loads accepted
ExtractStructured(obj, question) ==
    LET wantIssue == HasKey(obj, "issue_title") \/ HasKey(obj, "issue_description")
        wantInsight == HasKey(obj, "insight_title") \/ HasKey(obj, "insight_content")
        topic == infer_issue_topic(question, JsonGet(obj, "issue_topic", JNull))
        type == infer_insight_type(JsonGet(obj, "insight_type", JNull))
        score == JsonGet(obj, "insight_score", JInt(0))
    IN  IF wantIssue /\ ~topic.ok THEN topic
        ELSE IF wantInsight /\ ~type.ok THEN type
        ELSE IF wantInsight /\ score.t # "int" THEN Raise(TypeError)
        ELSE Ok([ issue |-> IF wantIssue
                            THEN [ present |-> TRUE,
                                   title |-> JsonGet(obj, "issue_title",
                                                     JStr(Prefix(question, 100))),
                                   description |-> JsonGet(obj, "issue_description",
                                                           JStr(question)),
                                   topic |-> topic.value ]
                            ELSE NoIssue,
                  insight |-> IF wantInsight
                              THEN [ present |-> TRUE,
                                     title |-> JsonGet(obj, "insight_title", JStr(<<>>)),
                                     content |-> JsonGet(obj, "insight_content", JStr(<<>>)),
                                     type |-> type.value,
                                     score |-> Min(100, Max(0, score.n)) ]
                              ELSE NoInsight ])

\* mutant of extract_issue_insight_from_ai_response: the fenced block is
\* ignored
ExtractIgnoresBlock(answer, question) == ExtractHeuristic(answer, question)

\* extract_issue_insight_from_ai_response
extract_issue_insight_from_ai_response(answer, question) ==
    IF answer.block.kind = "object"
    THEN ExtractStructured(answer.block.obj, question)
    ELSE ExtractHeuristic(answer, question)

(***************************************************************************)
(* Inputs of the pure tier functions                                       *)
(***************************************************************************)
\* keys of at most this length are tried in every mix of upper and lower case
MaxMixedLen == 8

TableKeys == { kv[1] : kv \in PURPOSE_TO_TIER }

CaseVariants(k) ==
    { [i \in 1..Len(k) |-> IF i \in m THEN UpperChar(k[i]) ELSE k[i]] :
        m \in SUBSET (1..Len(k)) }

UnknownPurposes ==
    { <<>>,
      <<"u","n","k","n","o","w","n","_","p","u","r","p","o","s","e">>,
      <<"s","t","a","f","f","q","a">>,
      <<"s","t","a","f","f","_","q","a"," ">>,
      <<"p","r","e","m","i","u","m">>,
      <<"d","e","f","a","u","l","t","s">>,
      <<"S","T","A","F","F">> }

PurposeInputs ==
    TableKeys
    \cup { StrUpper(k) : k \in TableKeys }
    \cup { StrCapitalize(k) : k \in TableKeys }
    \cup UNION { CaseVariants(k) : k \in { x \in TableKeys : Len(x) <= MaxMixedLen } }
    \cup UnknownPurposes

(***************************************************************************)
(* The stored data the chat turn handler works on.  Ids are positive; 0   *)
(* stands for None.                                                        *)
(***************************************************************************)
\* the tenant "mikamo" that init_database creates
DEFAULT_TENANT_ID == 1
OTHER_TENANT_ID == 2
Tenants == {DEFAULT_TENANT_ID, OTHER_TENANT_ID}

\* table departments: id -> code
Departments == {1, 2, 3}
DepartmentCode(d) == CASE d = 1 -> "cafe" [] d = 2 -> "head" [] d = 3 -> "gas"

\* table business_units: id -> tenant and code
BusinessUnits == {1, 2}
BusinessUnitRow(b) ==
    CASE b = 1 -> [tenant_id |-> DEFAULT_TENANT_ID, code |-> "cafe"]
      [] b = 2 -> [tenant_id |-> OTHER_TENANT_ID, code |-> "gas"]

\* table users: a staff member of the default tenant, the administrator of
\* the other tenant (head office, no business unit) and a manager created
\* before tenants existed (no tenant, no business unit, department "cafe")
Users == {1, 2, 3}
UserRow(u) ==
    CASE u = 1 -> [tenant_id |-> DEFAULT_TENANT_ID, role |-> "staff",
                   business_unit_id |-> 1, department_id |-> 1]
      [] u = 2 -> [tenant_id |-> OTHER_TENANT_ID, role |-> "admin",
                   business_unit_id |-> 0, department_id |-> 2]
      [] u = 3 -> [tenant_id |-> 0, role |-> "manager",
                   business_unit_id |-> 0, department_id |-> 1]

\* select(BusinessUnit).where(BusinessUnit.code == code).first(): id or 0
BusinessUnitByCode(code) ==
    IF \E b \in BusinessUnits : BusinessUnitRow(b).code = code
    THEN CHOOSE b \in BusinessUnits : BusinessUnitRow(b).code = code
    ELSE 0

\* select(Department).where(Department.code == code).first(): id or 0
DepartmentByCode(code) ==
    IF \E d \in Departments : DepartmentCode(d) = code
    THEN CHOOSE d \in Departments : DepartmentCode(d) = code
    ELSE 0

\* table knowledge_items (all active): an item of the cafe unit and a
\* company-wide item of the default tenant, an item of the gas unit and a
\* company-wide item of the other tenant; business_unit_id 0 is NULL
KnowledgeItems == {1, 2, 3, 4}
KnowledgeItemRow(k) ==
    CASE k = 1 -> [tenant_id |-> DEFAULT_TENANT_ID, business_unit_id |-> 1,
                   title |-> <<"cafe hours">>,
                   content |-> <<"opening hours of the cafe", "nine to five">>,
                   updated_at |-> 1]
      [] k = 2 -> [tenant_id |-> DEFAULT_TENANT_ID, business_unit_id |-> 0,
                   title |-> <<"holidays">>,
                   content |-> <<"opening hours of the cafe", "closed on new year">>,
                   updated_at |-> 2]
      [] k = 3 -> [tenant_id |-> OTHER_TENANT_ID, business_unit_id |-> 2,
                   title |-> <<"complaints at the pump">>,
                   content |-> <<"jp_kureemu", "handling", "jp_koma", "call the manager">>,
                   updated_at |-> 3]
      [] k = 4 -> [tenant_id |-> OTHER_TENANT_ID, business_unit_id |-> 0,
                   title |-> <<"opening hours of the cafe">>,
                   content |-> <<"price list of the other company">>,
                   updated_at |-> 4]

\* table daily_logs: the departments that have logs of the last 14 days
DailyLogDepartments == {3}

(***************************************************************************)
(* Bounds and request inputs                                               *)
(***************************************************************************)
\* requests handled at the same time
MaxWorkers == 2
\* requests started in one behaviour
MaxRequests == 2

Workers == 1..MaxWorkers

\* business_unit_id of a request: none, a unit of the other tenant, an id
\* that only the departments table knows, an id nobody knows
BusinessUnitIdInputs == {0, 2, 3, 9}
ModeInputs == {None, "staff_qa", "management"}

\* questions: one without keywords, one with a complaint and a trouble word
Q_PLAIN == <<"opening hours of the cafe">>
Q_COMPLAINT == <<"jp_kureemu", "handling", "jp_koma">>
Questions == {Q_PLAIN, Q_COMPLAINT}

\* AIServiceV2._fallback_response: the canned reply (none of the extractor's
\* keywords occurs in it)
FALLBACK_RESPONSE ==
    [ text |-> <<"Thank you for your question. The AI service is temporarily unavailable.">>,
      block |-> NoBlock ]

\* replies of the provider: plain text, and text with a fenced block carrying
\* an issue and an insight scored 85
A_PLAIN == [text |-> <<"We open at nine.">>, block |-> NoBlock]
A_BLOCK ==
    [ text |-> <<"Answer.", NL, "fenced block">>,
      block |-> ObjectBlock(
          [f \in JsonFields |->
              CASE f = "issue_title" -> JStr(<<"late deliveries">>)
                [] f = "issue_topic" -> JStr(<<"O","p","e","r","a","t","i","o","n">>)
                [] f = "insight_title" -> JStr(<<"reorder earlier">>)
                [] f = "insight_content" -> JStr(<<"order two days ahead">>)
                [] f = "insight_type" -> JStr(<<"r","i","s","k">>)
                [] f = "insight_score" -> JInt(85)
                [] OTHER -> JAbsent]) ]
\* a reply whose block has a score that is not a number
A_BAD_SCORE ==
    [ text |-> <<"Answer.", NL, "fenced block">>,
      block |-> ObjectBlock(
          [f \in JsonFields |->
              CASE f = "insight_title" -> JStr(<<"reorder earlier">>)
                [] f = "insight_score" -> JStr(<<"high">>)
                [] OTHER -> JAbsent]) ]
\* a reply whose block carries an insight scored below the threshold
A_LOW_SCORE ==
    [ text |-> <<"Answer.", NL, "fenced block">>,
      block |-> ObjectBlock(
          [f \in JsonFields |->
              CASE f = "insight_title" -> JStr(<<"minor note">>)
                [] f = "insight_content" -> JStr(<<"nothing urgent">>)
                [] f = "insight_type" -> JStr(<<"i","m","p","r","o","v","e","m","e","n","t">>)
                [] f = "insight_score" -> JInt(59)
                [] OTHER -> JAbsent]) ]
Answers == {A_PLAIN, A_BLOCK, A_BAD_SCORE, A_LOW_SCORE}
NoAnswer == [text |-> <<>>, block |-> NoBlock]

\* what the provider does with a request
Outcomes ==
    { [kind |-> "ok", answer |-> a, detail |-> None] : a \in Answers }
    \cup { [kind |-> k, answer |-> NoAnswer, detail |-> None] :
             k \in OutcomeKinds \ {"ok", "400"} }
    \cup { [kind |-> "400", answer |-> NoAnswer, detail |-> "max_tokens is too large"] }

(***************************************************************************)
(* State                                                                   *)
(***************************************************************************)
VARIABLES
    settings,        \* the process settings (app.core.config.settings)
    tenantSettings,  \* table tenant_settings: tenant id -> row or NoSettings
    conversations,   \* table conversations (committed rows, id = position)
    messages,        \* table messages (committed rows, id = position)
    usageLogs,       \* table ai_usage_logs (committed rows)
    issues,          \* table issues (committed rows)
    insights,        \* table insights (committed rows)
    clock,           \* datetime.utcnow()
    started,         \* number of requests started so far
    req,             \* per worker: the request it handles, its local
                     \* variables, its session and its response
    tierOp,          \* which pure tier function was last applied
    tierIn,          \* its tier argument
    policyIn,        \* its policy argument
    purposeIn,       \* its purpose argument
    tierOut,         \* its result
    backend,         \* one use of a backend outside a chat turn: the factory
                     \* call, the generate_reply call and the provider's answer
    extraction       \* one call of the issue/insight extractor

tierVars == <<tierOp, tierIn, policyIn, purposeIn, tierOut>>
dbVars == <<conversations, messages, usageLogs, issues, insights>>
chatVars == <<settings, tenantSettings, dbVars, clock, started, req>>
callVars == <<backend, extraction>>
vars == <<chatVars, tierVars, callVars>>

NoService ==
    [ ai_client |-> [api_key |-> None, model |-> None,
                     default_max_tokens |-> 0, default_temperature |-> 0],
      purpose |-> <<>>, effective_tier |-> None, model_name |-> None,
      max_tokens |-> 0, temperature |-> 0 ]
NoPayload == [model |-> None, max_tokens |-> 0, temperature |-> 0]
\* what the user message sent to the model is built from: the knowledge
\* items quoted, the stored messages quoted (ids) and the department whose
\* daily logs are summarised (0: none)
NoPrompt == [knowledge |-> <<>>, history |-> <<>>, logs |-> 0]

\* the objects added to the session and not yet committed
NoPending ==
    [ usage |-> <<>>, messages |-> <<>>, touch |-> 0, issues |-> <<>>, insights |-> <<>> ]

NoResponse ==
    [ status |-> 0, conversation_id |-> 0, reply |-> NoAnswer, message_id |-> 0,
      error_code |-> <<>>, messages |-> <<>> ]

\* a worker that handles no request
IdleReq ==
    [ pc |-> "idle", kind |-> None, turn |-> 0, steps |-> <<>>,
      user |-> 0, conversation_id |-> 0, business_unit_id_in |-> 0,
      mode |-> None, message |-> <<>>,
      tenant_id |-> 0, business_unit_id |-> 0, business_unit |-> 0, department |-> 0,
      conversation |-> 0, created |-> FALSE,
      use_staff_qa |-> FALSE, row |-> NoSettings,
      service |-> NoService, prompt |-> NoPrompt, sent |-> NoPayload,
      failure |-> NoError, crash |-> NoError, answer |-> NoAnswer,
      pending |-> NoPending, response |-> NoResponse ]

TierIdle ==
    /\ tierOp = "none"
    /\ tierIn = STANDARD
    /\ policyIn = POLICY_ALL
    /\ purposeIn = <<>>
    /\ tierOut = STANDARD

\* the database after init_database: the default tenant has its settings row
\* (policy ALL), the other tenant has none yet; no conversation exists
ChatIdle ==
    /\ tenantSettings = [t \in Tenants |->
                            IF t = DEFAULT_TENANT_ID
                            THEN SettingsRow(POLICY_ALL, 0) ELSE NoSettings]
    /\ conversations = <<>>
    /\ messages = <<>>
    /\ usageLogs = <<>>
    /\ issues = <<>>
    /\ insights = <<>>
    /\ clock = 1
    /\ started = 0
    /\ req = [w \in Workers |-> IdleReq]

\* no backend is in use outside the chat turns and the extractor is not
\* being called
NoBackend ==
    [ pc |-> "none", op |-> "none", purpose |-> <<>>, tier_policy |-> POLICY_ALL,
      made |-> Raise(NoError),
      options |-> [max_tokens |-> 0, temperature |-> 0],
      payload |-> Raise(NoError), posts |-> 0,
      outcome |-> [kind |-> "none", answer |-> NoAnswer, detail |-> None],
      result |-> Raise(NoError) ]
NoExtraction ==
    [ pc |-> "none", answer |-> NoAnswer, question |-> <<>>, out |-> Raise(NoError) ]
CallIdle ==
    /\ backend = NoBackend
    /\ extraction = NoExtraction

Init ==
    /\ settings \in SettingsChoices
    /\ ChatIdle
    /\ TierIdle
    /\ CallIdle

TierInit ==
    /\ settings = SettingsFull
    /\ ChatIdle
    /\ TierIdle
    /\ CallIdle

\* an HTTP error response
ErrorResponse(status, error_code) ==
    [NoResponse EXCEPT !.status = status, !.error_code = error_code]

\* the request ends: the session is closed without commit, so whatever it
\* holds is discarded
EndWith(r, response) ==
    [r EXCEPT !.pc = "done", !.pending = NoPending, !.response = response]

(***************************************************************************)
(* create_ai_chat_v2, first part: tenant, business unit, conversation     *)
(***************************************************************************)
\* the tenant of the request
ResolveTenant(u) ==
    IF UserRow(u).tenant_id # 0 THEN UserRow(u).tenant_id ELSE DEFAULT_TENANT_ID

\* the business unit of the request: [found, business_unit_id, business_unit,
\* department]; found is FALSE when neither table knows the id
ResolveScope(u, requested) ==
    LET own == UserRow(u).business_unit_id
        dept0 == IF requested = 0 /\ own = 0 THEN UserRow(u).department_id ELSE 0
        bu_id == IF requested # 0 THEN requested
                 ELSE IF own # 0 THEN own
                 ELSE IF dept0 # 0 THEN BusinessUnitByCode(DepartmentCode(dept0))
                 ELSE 0
        bu == IF bu_id \in BusinessUnits THEN bu_id ELSE 0
        dept == IF bu_id # 0 /\ bu = 0
                THEN (IF bu_id \in Departments THEN bu_id ELSE 0)
                ELSE dept0
    IN  [ found |-> ~(bu_id # 0 /\ bu = 0 /\ dept = 0),
          business_unit_id |-> bu_id, business_unit |-> bu, department |-> dept ]

\* mutant of the new conversation row: always filed under the default tenant
NewConversationDefaultTenant(r, now) ==
    [ tenant_id |-> DEFAULT_TENANT_ID, user_id |-> r.user,
      business_unit_id |-> IF r.business_unit # 0 THEN r.business_unit_id ELSE 0,
      title |-> Prefix(r.message, 50),
      created_at |-> now, updated_at |-> now ]

\* the new row of table conversations
NewConversation(r, now) ==
    [ tenant_id |-> r.tenant_id, user_id |-> r.user,
      business_unit_id |-> IF r.business_unit # 0 THEN r.business_unit_id ELSE 0,
      title |-> Prefix(r.message, 50),
      created_at |-> now, updated_at |-> now ]

\* mutant of the ownership test: any existing conversation is accepted
OwnsConversationAnyUser(u, cid) ==
    cid \in 1..Len(conversations)

\* session.get(Conversation, id) and the ownership test
OwnsConversation(u, cid) ==
    /\ cid \in 1..Len(conversations)
    /\ conversations[cid].user_id = u

(***************************************************************************)
(* create_ai_chat_v2, second part: the service call, the rows added to    *)
(* the session and the commit                                              *)
(***************************************************************************)
\* staff-QA mode is used when asked for and for the roles staff and manager
UseStaffQa(u, mode) == mode = "staff_qa" \/ UserRow(u).role \in {"staff", "manager"}

\* s occurs in t (SQL: t LIKE '%s%')
IsInfix(s, t) ==
    \E i \in 0..(Len(t) - Len(s)) : SubSeq(t, i + 1, i + Len(s)) = s

\* the duplicate check before an issue is created.  The first criterion is
\* the Python expression
\*     Issue.business_unit_id == business_unit_id if business_unit else None
\* which is None without a business unit, and a WHERE clause of NULL selects
\* no row.
ExistingIssue(r, issue_data, pending_issues) ==
    /\ r.business_unit # 0
    /\ \E k \in 1..Len(issues \o pending_issues) :
          LET i == (issues \o pending_issues)[k]
          IN  /\ i.business_unit_id = r.business_unit_id
              /\ \/ IsInfix(Prefix(issue_data.title.s, 50), i.title)
                 \/ IsInfix(Prefix(issue_data.description.s, 100), i.description)

\* mutant of CreatesInsight: every insight candidate is stored
CreatesInsightAnyScore(insight) == insight.present

\* `if extracted.get("insight") and extracted["insight"]["score"] >= 60`
CreatesInsight(insight) == insight.present /\ insight.score >= 60

\* `if ai_purpose and ai_tier and ai_model` before log_ai_usage
UsageLogged(r) ==
    /\ r.service.purpose # <<>>
    /\ r.service.effective_tier # None
    /\ r.service.model_name # None

\* the statements create_ai_chat_v2 runs between the answer and the commit,
\* in the order it runs them: log_ai_usage, the two messages, the extractor
StepsAfterAnswer(r) ==
    r.steps \o (IF UsageLogged(r) THEN <<"log_usage">> ELSE <<>>)
            \o <<"persist_turn", "extract">>

\* the rows create_ai_chat_v2 adds to its session once it has an answer and
\* the extractor has returned, or the exception raised on the way
SessionRows(r, answer, ai_error, now, extracted) ==
    LET scope_id == IF r.business_unit # 0 THEN r.business_unit_id ELSE 0
        logged == UsageLogged(r)
    IN  IF ~extracted.ok THEN extracted
        ELSE IF extracted.value.issue.present
                /\ \/ extracted.value.issue.title.t # "str"
                   \/ extracted.value.issue.description.t # "str"
        THEN Raise(TypeError)
        ELSE Ok([ usage |->
                      IF logged
                      THEN << [ tenant_id |-> r.tenant_id, user_id |-> r.user,
                                business_unit_id |-> scope_id,
                                purpose |-> r.service.purpose,
                                tier |-> r.service.effective_tier,
                                model |-> r.service.model_name, error |-> ai_error,
                                conversation_id |-> r.conversation, turn |-> r.turn ] >>
                      ELSE <<>>,
                  messages |->
                      << [ conversation_id |-> r.conversation, role |-> "user",
                           content |-> [text |-> r.message, block |-> NoBlock],
                           created_at |-> now, turn |-> r.turn ],
                         [ conversation_id |-> r.conversation, role |-> "assistant",
                           content |-> answer, created_at |-> now, turn |-> r.turn ] >>,
                  touch |-> now,
                  issues |->
                      IF extracted.value.issue.present
                         /\ ~ExistingIssue(r, extracted.value.issue, <<>>)
                      THEN << [ tenant_id |-> r.tenant_id, business_unit_id |-> scope_id,
                                title |-> extracted.value.issue.title.s,
                                description |-> extracted.value.issue.description.s,
                                status |-> "open", topic |-> extracted.value.issue.topic,
                                created_by_user_id |-> r.user,
                                conversation_id |-> r.conversation ] >>
                      ELSE <<>>,
                  insights |->
                      IF CreatesInsight(extracted.value.insight)
                      THEN << [ tenant_id |-> r.tenant_id, business_unit_id |-> scope_id,
                                title |-> extracted.value.insight.title,
                                content |-> extracted.value.insight.content,
                                type |-> extracted.value.insight.type,
                                score |-> extracted.value.insight.score,
                                created_by |-> 0, turn |-> r.turn ] >>
                      ELSE <<>> ])

\* log_ai_usage, the two messages, the conversation's timestamp and the
\* extraction of create_ai_chat_v2
SessionAdds(r, answer, ai_error, now) ==
    SessionRows(r, answer, ai_error, now,
                extract_issue_insight_from_ai_response(answer, r.message))

\* an exception nobody catches ends the request
Crash(r, e) ==
    EndWith([r EXCEPT !.crash = e],
            ErrorResponse(UnhandledHttpError(e).status, UnhandledHttpError(e).error_code))

\* the request once the rows are in the session, or once adding them raised
WithAdds(r, adds) ==
    IF adds.ok
    THEN [r EXCEPT !.pc = "persisted", !.pending = adds.value]
    ELSE Crash(r, adds.error)

\* create_ai_chat_v2 from the answer to the line before the commit
AfterAnswer(r, answer, now) ==
    WithAdds([r EXCEPT !.answer = answer, !.steps = StepsAfterAnswer(r)],
             SessionAdds(r, answer, <<>>, now))

\* the response of create_ai_chat_v2 in staff-QA mode for a ValueError that
\* reached its except clause
StaffFailure(r, raised, e) ==
    EndWith([r EXCEPT !.failure = raised],
            ErrorResponse(StaffHttpError(e).status, StaffHttpError(e).error_code))

\* search_knowledge_items without category and tags: the items that match
\* the query, of the tenant when a tenant id is given, of the business unit
\* or company-wide when a business unit id is given (0 stands for None)
KnowledgeMatches(query, business_unit_id, tenant_id) ==
    { k \in KnowledgeItems :
        /\ tenant_id # 0 => KnowledgeItemRow(k).tenant_id = tenant_id
        /\ query # <<>> => \/ IsInfix(query, KnowledgeItemRow(k).title)
                           \/ IsInfix(query, KnowledgeItemRow(k).content)
        /\ business_unit_id # 0
           => KnowledgeItemRow(k).business_unit_id \in {business_unit_id, 0} }

\* order_by(KnowledgeItem.updated_at.desc()).limit(limit)
RECURSIVE NewestFirst(_, _)
NewestFirst(items, limit) ==
    IF items = {} \/ limit = 0
    THEN <<>>
    ELSE <<CHOOSE k \in items :
              \A j \in items : KnowledgeItemRow(j).updated_at <= KnowledgeItemRow(k).updated_at>>
         \o NewestFirst(items \ {CHOOSE k \in items :
              \A j \in items : KnowledgeItemRow(j).updated_at <= KnowledgeItemRow(k).updated_at},
                        limit - 1)

search_knowledge_items(query, business_unit_id, tenant_id, limit) ==
    NewestFirst(KnowledgeMatches(query, business_unit_id, tenant_id), limit)

\* get_knowledge_context as create_ai_chat_v2 and StaffQAService call it:
\* without tenant_id; the items whose title and excerpt the text holds
get_knowledge_context(query, business_unit_id, limit) ==
    search_knowledge_items(query, business_unit_id, 0, limit)

\* the ids of the stored messages of a conversation, oldest first
ConversationMessageIds(cid) ==
    SelectSeq([i \in 1..Len(messages) |-> i], LAMBDA i : messages[i].conversation_id = cid)

\* the last n elements of a sequence
LastN(s, n) == SubSeq(s, Max(1, Len(s) - n + 1), Len(s))

\* StaffQAService._build_context: knowledge of the business unit when there
\* is one, and the latest three messages of the conversation
StaffBuildContext(r) ==
    [ knowledge |-> IF r.business_unit # 0
                    THEN get_knowledge_context(r.message, r.business_unit, 3)
                    ELSE <<>>,
      history |-> LastN(ConversationMessageIds(r.conversation), 3),
      logs |-> 0 ]

\* department_for_logs of create_ai_chat_v2
DepartmentForLogs(r) ==
    IF r.department # 0 THEN r.department
    ELSE IF r.business_unit # 0
    THEN DepartmentByCode(BusinessUnitRow(r.business_unit).code)
    ELSE 0

\* mutant of DeptObj: only the department found while resolving the scope
DeptObjDepartmentOnly(r) == r.department

\* dept_obj of create_ai_chat_v2: the department, else the department with
\* the business unit's code, else a temporary Department made from the
\* business unit (-1); 0 is None
DeptObj(r) ==
    IF r.department # 0 THEN r.department
    ELSE IF r.business_unit # 0
    THEN (IF DepartmentByCode(BusinessUnitRow(r.business_unit).code) # 0
          THEN DepartmentByCode(BusinessUnitRow(r.business_unit).code)
          ELSE -1)
    ELSE 0

\* the context of AIServiceV2.generate_answer: the summary of the daily logs
\* and the knowledge context that create_ai_chat_v2 looked up with the
\* business unit id as resolved; no stored message
ManagementBuildContext(r) ==
    [ knowledge |-> get_knowledge_context(r.message, r.business_unit_id, 3),
      history |-> <<>>,
      logs |-> IF DepartmentForLogs(r) \in DailyLogDepartments
               THEN DepartmentForLogs(r) ELSE 0 ]

\* create_ai_chat_v2 once the service is built: generate_reply up to the
\* request sent to the provider
SendRequest(r, payload, now) ==
    IF payload.ok
    THEN [r EXCEPT !.pc = "waiting", !.sent = payload.value]
    ELSE IF r.use_staff_qa
    THEN StaffFailure(r, payload.error, StaffRaise(payload.error))
    ELSE AfterAnswer([r EXCEPT !.failure = payload.error], FALLBACK_RESPONSE, now)

\* the service call up to the request sent to the provider: the context is
\* assembled first.  generate_answer reads department.code, and so does the
\* fallback answer of its except clause, so without dept_obj the
\* AttributeError leaves the handler.
CallService(r, payload, now) ==
    IF r.use_staff_qa
    THEN SendRequest([r EXCEPT !.prompt = StaffBuildContext(r)], payload, now)
    ELSE IF DeptObj(r) = 0
    THEN Crash(r, AttributeError)
    ELSE SendRequest([r EXCEPT !.prompt = ManagementBuildContext(r)], payload, now)

\* create_ai_chat_v2 once the service constructor has returned or raised
WithService(r, made, now) ==
    IF made.ok
    THEN CallService([r EXCEPT !.service = made.value,
                               !.steps = Append(r.steps, "dispatch_model")],
                     AdapterRequest(made.value.ai_client,
                                    [max_tokens |-> made.value.max_tokens,
                                     temperature |-> made.value.temperature]),
                     now)
    ELSE IF r.use_staff_qa
    THEN StaffFailure(r, made.error, made.error)
    ELSE EndWith([r EXCEPT !.failure = made.error],
                 ErrorResponse(UnhandledHttpError(made.error).status,
                               UnhandledHttpError(made.error).error_code))

\* create_ai_chat_v2 from the choice of the mode to the request sent to the
\* provider (the await of generate_reply)
Dispatch(r, cfg, row, now) ==
    WithService([r EXCEPT !.use_staff_qa = UseStaffQa(r.user, r.mode), !.row = row,
                          !.steps = Append(r.steps, "select_mode")],
                IF UseStaffQa(r.user, r.mode)
                THEN StaffQAService(cfg, row) ELSE AIServiceV2(cfg, row),
                now)

\* create_ai_chat_v2 from the return of generate_reply to the line before
\* the commit: staff-QA mode turns an exception into an HTTP error,
\* management mode into the fallback answer
WithReply(r, result, now) ==
    IF ~result.ok /\ r.use_staff_qa
    THEN StaffFailure(r, result.error, StaffRaise(result.error))
    ELSE AfterAnswer([r EXCEPT !.failure = result.error],
                     IF result.ok THEN result.value ELSE FALLBACK_RESPONSE, now)

\* the provider answers or fails
BackendReply(w, outcome) ==
    /\ req[w].pc = "waiting"
    /\ req' = [req EXCEPT ![w] = WithReply(req[w], AdapterResponse(outcome), clock)]
    /\ clock' = clock + 1
    /\ UNCHANGED <<settings, tenantSettings, dbVars, started, tierVars, callVars>>

\* mutant of TouchConversation: the newer of the stored and the written
\* timestamp is kept
TouchConversationKeepNewest(cid, at) ==
    [conversations EXCEPT ![cid].updated_at = Max(conversations[cid].updated_at, at)]

\* the UPDATE that the commit issues for `conversation.updated_at =
\* datetime.utcnow()`: the row gets the value this turn computed, whatever
\* another turn has written since this turn loaded the row
TouchConversation(cid, at) ==
    [conversations EXCEPT ![cid].updated_at = at]

\* mutant of the commit: the user message is committed on its own first, the
\* rest of the session in a second commit
CommitTurnUserFirst(w) ==
    /\ req[w].pc = "persisted"
    /\ LET r == req[w]
           p == r.pending
       IN  IF Len(p.messages) = 2
           THEN /\ messages' = Append(messages, p.messages[1])
                /\ req' = [req EXCEPT ![w].pending.messages = Tail(p.messages)]
                /\ UNCHANGED <<usageLogs, conversations, issues, insights>>
           ELSE /\ usageLogs' = usageLogs \o p.usage
                /\ messages' = messages \o p.messages
                /\ conversations' = TouchConversation(r.conversation, p.touch)
                /\ issues' = issues \o p.issues
                /\ insights' = insights \o p.insights
                /\ req' = [req EXCEPT ![w] =
                              EndWith([r EXCEPT !.steps = Append(r.steps, "respond")],
                                      [NoResponse EXCEPT
                                             !.status = HTTP_201_CREATED,
                                             !.conversation_id = r.conversation,
                                             !.reply = r.answer,
                                             !.message_id = Len(messages) + Len(p.messages)])]
    /\ UNCHANGED <<settings, tenantSettings, clock, started, tierVars, callVars>>

\* session.commit() of create_ai_chat_v2 and its response
CommitTurn(w) ==
    /\ req[w].pc = "persisted"
    /\ LET r == req[w]
           p == r.pending
       IN  /\ usageLogs' = usageLogs \o p.usage
           /\ messages' = messages \o p.messages
           /\ conversations' = TouchConversation(r.conversation, p.touch)
           /\ issues' = issues \o p.issues
           /\ insights' = insights \o p.insights
           /\ req' = [req EXCEPT ![w] =
                         EndWith([r EXCEPT !.steps = Append(r.steps, "respond")],
                                 [NoResponse EXCEPT
                                        !.status = HTTP_201_CREATED,
                                        !.conversation_id = r.conversation,
                                        !.reply = r.answer,
                                        !.message_id = Len(messages) + Len(p.messages)])]
    /\ UNCHANGED <<settings, tenantSettings, clock, started, tierVars, callVars>>

\* the database rejects the INSERT of the usage record
OperationalError ==
    [type |-> "OperationalError", msg |-> <<"INSERT INTO ai_usage_logs failed">>]

\* the usage record that log_ai_usage added to the session is written by
\* session.commit() of create_ai_chat_v2 together with the messages; when the
\* database rejects it the commit raises, nothing catches the exception and
\* the session is rolled back
UsageWriteFails(w) ==
    /\ req[w].pc = "persisted"
    /\ req[w].pending.usage # <<>>
    /\ req' = [req EXCEPT ![w] = Crash(req[w], OperationalError)]
    /\ UNCHANGED <<settings, tenantSettings, dbVars, clock, started, tierVars, callVars>>

\* a request is handled by the first worker that is free
FreeWorker(w) ==
    /\ req[w].pc \in {"idle", "done"}
    /\ \A v \in Workers : v < w => req[v].pc \notin {"idle", "done"}

\* get_conversation_messages
GetConversationMessages(w, u, cid) ==
    /\ FreeWorker(w)
    /\ started < MaxRequests
    /\ LET r0 == [IdleReq EXCEPT !.kind = "read", !.turn = started + 1,
                                 !.user = u, !.conversation_id = cid]
       IN  req' = [req EXCEPT ![w] =
                      IF OwnsConversation(u, cid)
                      THEN EndWith(r0, [NoResponse EXCEPT
                                          !.status = 200,
                                          !.messages = SelectSeq(messages,
                                              LAMBDA m : m.conversation_id = cid)])
                      ELSE EndWith(r0, ErrorResponse(HTTP_404_NOT_FOUND,
                                                     <<"conversation not found">>))]
    /\ started' = started + 1
    /\ UNCHANGED <<settings, tenantSettings, dbVars, clock, tierVars, callVars>>

\* what an administrator sets with PATCH /settings
SettingsUpdates ==
    { [ai_tier_policy |-> p, ai_max_tokens_override |-> 0] : p \in AiTierPolicy }
    \cup { [ai_tier_policy |-> POLICY_ALL, ai_max_tokens_override |-> 9000] }

\* update_settings: the row of the administrator's tenant is created if it is
\* missing and updated
UpdateSettings(u, update) ==
    /\ UserRow(u).role = "admin"
    /\ UserRow(u).tenant_id \in Tenants
    /\ started < MaxRequests
    /\ tenantSettings' = [tenantSettings EXCEPT ![UserRow(u).tenant_id] =
                             SettingsRow(update.ai_tier_policy, update.ai_max_tokens_override)]
    /\ started' = started + 1
    /\ UNCHANGED <<settings, dbVars, clock, req, tierVars, callVars>>

\* the chat requests that are tried: the staff member and the administrator
\* with and without a conversation id, the staff member with a business unit
\* id and a complaint, the administrator with each mode, the staff member
\* asking for management mode, the administrator naming the business unit of
\* their tenant, and the manager without a tenant
ChatRequests ==
    { [user |-> u, conversation_id |-> c, business_unit_id |-> 0,
       mode |-> None, message |-> Q_PLAIN] :
         u \in {1, 2}, c \in 0..(Len(conversations) + 1) }
    \cup { [user |-> 1, conversation_id |-> 0, business_unit_id |-> b,
            mode |-> None, message |-> Q_COMPLAINT] : b \in BusinessUnitIdInputs \ {0} }
    \cup { [user |-> 2, conversation_id |-> 0, business_unit_id |-> 0,
            mode |-> m, message |-> Q_PLAIN] : m \in ModeInputs \ {None} }
    \cup { [user |-> 1, conversation_id |-> 0, business_unit_id |-> 0,
            mode |-> "management", message |-> Q_PLAIN] }
    \cup { [user |-> 2, conversation_id |-> 0, business_unit_id |-> 2,
            mode |-> None, message |-> Q_PLAIN] }
    \cup { [user |-> 3, conversation_id |-> 0, business_unit_id |-> 0,
            mode |-> None, message |-> Q_PLAIN] }

\* the request as create_ai_chat_v2 sees it after resolving tenant and
\* business unit
ResolvedRequest(c, turn, tenant_id, scope) ==
    [IdleReq EXCEPT !.kind = "chat", !.turn = turn, !.user = c.user,
                    !.steps = <<"resolve_tenant", "resolve_scope">>,
                    !.conversation_id = c.conversation_id,
                    !.business_unit_id_in = c.business_unit_id,
                    !.mode = c.mode, !.message = c.message,
                    !.tenant_id = tenant_id,
                    !.business_unit_id = scope.business_unit_id,
                    !.business_unit = scope.business_unit,
                    !.department = scope.department]

\* create_ai_chat_v2 from the conversation lookup to the request sent to the
\* provider
BeginResolved(w, r0, found) ==
    IF ~found
    THEN /\ req' = [req EXCEPT ![w] =
                       EndWith(r0, ErrorResponse(HTTP_404_NOT_FOUND,
                                                 <<"business unit not found">>))]
         /\ UNCHANGED <<conversations, clock>>
    ELSE IF r0.conversation_id # 0 /\ ~OwnsConversation(r0.user, r0.conversation_id)
    THEN /\ req' = [req EXCEPT ![w] =
                       EndWith(r0, ErrorResponse(HTTP_404_NOT_FOUND,
                                                 <<"conversation not found">>))]
         /\ UNCHANGED <<conversations, clock>>
    ELSE /\ conversations' =
               IF r0.conversation_id # 0
               THEN conversations
               ELSE Append(conversations, NewConversation(r0, clock))
         /\ req' = [req EXCEPT ![w] =
                       Dispatch([r0 EXCEPT !.created = (r0.conversation_id = 0),
                                           !.steps = r0.steps \o
                                               <<"load_or_create_conversation",
                                                 "assemble_context">>,
                                           !.conversation =
                                               IF r0.conversation_id # 0
                                               THEN r0.conversation_id
                                               ELSE Len(conversations) + 1],
                                settings, tenantSettings[r0.tenant_id], clock)]
         /\ clock' = clock + 1

\* create_ai_chat_v2 from its first line to the request sent to the provider
BeginTurn(w, c) ==
    /\ FreeWorker(w)
    /\ started < MaxRequests
    /\ BeginResolved(w,
                     ResolvedRequest(c, started + 1, ResolveTenant(c.user),
                                     ResolveScope(c.user, c.business_unit_id)),
                     ResolveScope(c.user, c.business_unit_id).found)
    /\ started' = started + 1
    /\ UNCHANGED <<settings, tenantSettings, messages, usageLogs, issues, insights, tierVars, callVars>>

\* one call of AiClientFactory.apply_tier_policy
ApplyTierPolicyCall ==
    \E t \in AiTier, p \in PolicyInputs :
        /\ tierOp = "none"
        /\ tierOp' = "apply_tier_policy"
        /\ tierIn' = t
        /\ policyIn' = p
        /\ tierOut' = apply_tier_policy(t, p)
        /\ UNCHANGED <<purposeIn, chatVars, callVars>>

\* one call of AiClientFactory.get_tier_for_purpose
GetTierForPurposeCall ==
    \E s \in PurposeInputs :
        /\ tierOp = "none"
        /\ tierOp' = "get_tier_for_purpose"
        /\ purposeIn' = s
        /\ tierOut' = get_tier_for_purpose(s)
        /\ UNCHANGED <<tierIn, policyIn, chatVars, callVars>>

TierNext == (ApplyTierPolicyCall \/ GetTierForPurposeCall)

Next ==
    \/ \E w \in Workers : \E c \in ChatRequests : BeginTurn(w, c)
    \/ \E w \in Workers : \E outcome \in Outcomes : BackendReply(w, outcome)
    \/ \E w \in Workers : CommitTurn(w)
    \/ \E w \in Workers : UsageWriteFails(w)
    \/ \E w \in Workers : \E u \in Users :
          \E cid \in 1..(Len(conversations) + 1) : GetConversationMessages(w, u, cid)
    \/ \E u \in Users : \E update \in SettingsUpdates : UpdateSettings(u, update)

Spec == Init /\ [][Next]_vars

SpecTier == TierInit /\ [][TierNext]_vars

(***************************************************************************)
(* Turns on one existing conversation: the staff member has had one turn, *)
(* and further turns on that conversation arrive, possibly at once.        *)
(***************************************************************************)
\* the request of the turn that created the conversation
FirstTurn ==
    [ ResolvedRequest([user |-> 1, conversation_id |-> 0, business_unit_id |-> 0,
                       mode |-> None, message |-> Q_PLAIN],
                      0, ResolveTenant(1), ResolveScope(1, 0))
      EXCEPT !.conversation = 1,
             !.service = StaffQAService(SettingsFull, SettingsRow(POLICY_ALL, 0)).value ]

\* the database after that turn was answered with plain text
SharedInit ==
    /\ settings = SettingsFull
    /\ tenantSettings = [t \in Tenants |->
                            IF t = DEFAULT_TENANT_ID
                            THEN SettingsRow(POLICY_ALL, 0) ELSE NoSettings]
    /\ conversations = << [NewConversation(FirstTurn, 1) EXCEPT !.updated_at = 2] >>
    /\ messages = SessionAdds(FirstTurn, A_PLAIN, <<>>, 2).value.messages
    /\ usageLogs = SessionAdds(FirstTurn, A_PLAIN, <<>>, 2).value.usage
    /\ issues = <<>>
    /\ insights = <<>>
    /\ clock = 3
    /\ started = 0
    /\ req = [w \in Workers |-> IdleReq]
    /\ TierIdle
    /\ CallIdle

\* the turns that arrive: the staff member on conversation 1, with the plain
\* question or with the complaint
SharedRequests ==
    { [user |-> 1, conversation_id |-> 1, business_unit_id |-> 0,
       mode |-> None, message |-> q] : q \in Questions }

SharedNext ==
    \/ \E w \in Workers : \E c \in SharedRequests : BeginTurn(w, c)
    \/ \E w \in Workers : \E outcome \in Outcomes : BackendReply(w, outcome)
    \/ \E w \in Workers : CommitTurn(w)
    \/ \E w \in Workers : UsageWriteFails(w)

SpecShared == SharedInit /\ [][SharedNext]_vars

(***************************************************************************)
(* A backend used on its own: AiClientFactory builds it, generate_reply   *)
(* is called once on it and the provider answers.                         *)
(***************************************************************************)
\* every deployment: the credential and each tier's model identifier are
\* set or missing
FactorySettings ==
    { [SettingsFull EXCEPT !.ANTHROPIC_API_KEY = k,
                           !.ANTHROPIC_MODEL_BASIC = b,
                           !.ANTHROPIC_MODEL_STANDARD = s,
                           !.ANTHROPIC_MODEL_PREMIUM = p] :
        k \in {None, "sk-key"}, b \in {None, "model-basic"},
        s \in {None, "model-standard"}, p \in {None, "model-premium"} }

FactoryPurposes == TableKeys \cup UnknownPurposes

\* options["max_tokens"] and options["temperature"]; 0 stands for a missing
\* or None entry
MaxTokensInputs == {0, 1, 1000, 8000, 8001, 9000}
TemperatureInputs == {0, 7}

\* the provider's answers, with a second remote detail for status 400
BackendOutcomes ==
    Outcomes \cup { [kind |-> "400", answer |-> NoAnswer, detail |-> "invalid model"] }

BackendInit ==
    /\ settings \in FactorySettings
    /\ ChatIdle
    /\ TierIdle
    /\ CallIdle

\* the backend once the factory has returned or raised
Made(op, purpose, tier_policy, made) ==
    [NoBackend EXCEPT !.pc = IF made.ok THEN "created" ELSE "failed",
                      !.op = op, !.purpose = purpose, !.tier_policy = tier_policy,
                      !.made = made]

\* one call of AiClientFactory.create_for_purpose_with_policy
CreateForPurposeWithPolicyCall ==
    \E s \in FactoryPurposes, p \in PolicyInputs :
        /\ backend.pc = "none"
        /\ backend' = Made("create_for_purpose_with_policy", s, p,
                         create_for_purpose_with_policy(settings, s, p))
        /\ UNCHANGED <<chatVars, tierVars, extraction>>

\* one call of AiClientFactory.create
CreateCall ==
    /\ backend.pc = "none"
    /\ backend' = Made("create", <<>>, POLICY_ALL, create(settings))
    /\ UNCHANGED <<chatVars, tierVars, extraction>>

\* generate_reply up to its await: the request is posted, or the call has
\* raised before anything was sent
Posted(b, options, payload) ==
    IF payload.ok
    THEN [b EXCEPT !.pc = "sent", !.options = options, !.payload = payload,
                   !.posts = b.posts + 1]
    ELSE [b EXCEPT !.pc = "returned", !.options = options, !.payload = payload,
                   !.result = payload]

\* one call of AnthropicClient.generate_reply on the backend that was built
GenerateReplyCall ==
    \E m \in MaxTokensInputs, t \in TemperatureInputs :
        /\ backend.pc = "created"
        /\ backend' = Posted(backend, [max_tokens |-> m, temperature |-> t],
                             AdapterRequest(backend.made.value,
                                            [max_tokens |-> m, temperature |-> t]))
        /\ UNCHANGED <<chatVars, tierVars, extraction>>

\* generate_reply from the provider's response on: it returns the reply or
\* raises, and posts nothing more
Returned(b, outcome) ==
    [b EXCEPT !.pc = "returned", !.outcome = outcome,
              !.result = AdapterResponse(outcome)]

\* the provider answers the posted request or fails
ProviderReply ==
    \E outcome \in BackendOutcomes :
        /\ backend.pc = "sent"
        /\ backend' = Returned(backend, outcome)
        /\ UNCHANGED <<chatVars, tierVars, extraction>>

BackendNext ==
    \/ CreateForPurposeWithPolicyCall
    \/ CreateCall
    \/ GenerateReplyCall
    \/ ProviderReply

SpecBackend == BackendInit /\ [][BackendNext]_vars

(***************************************************************************)
(* The extractor called on its own                                         *)
(***************************************************************************)
\* texts of at most this many pieces are tried
MaxTextLen == 2

\* the pieces of the answer texts: other wording, a line break, and a
\* keyword of each kind the heuristic looks for
TextPieces ==
    {"wording", NL, "jp_risuku", "jp_kikai", "jp_kaizen", "jp_imasugu", "jp_sukoshi"}
ExtractTexts == UNION { [1..n -> TextPieces] : n \in 0..MaxTextLen }

\* the values tried for the insight fields of a fenced block
ScoreInputs ==
    { JAbsent, JInt(-5), JInt(0), JInt(59), JInt(60), JInt(85), JInt(100), JInt(150),
      JStr(<<"high">>) }
TypeInputs ==
    { JAbsent, JStr(<<"r","i","s","k">>),
      JStr(<<"O","p","p","o","r","t","u","n","i","t","y">>), JStr(<<"b","o","g","u","s">>) }
TitleInputs == {JAbsent, JStr(<<"reorder earlier">>)}
ContentInputs == {JAbsent, JStr(<<"order two days ahead">>)}
IssueTitleInputs == {JAbsent, JStr(<<"late deliveries">>)}
\* issue_title with issue_topic: no issue, an issue without topic, and an
\* issue whose topic is a number
IssueInputs ==
    { <<it, JAbsent>> : it \in IssueTitleInputs }
    \cup { <<JStr(<<"late deliveries">>), JInt(5)>> }

ExtractBlocks ==
    { NoBlock, MalformedBlock }
    \cup { ObjectBlock([f \in JsonFields |->
                          CASE f = "issue_title" -> is[1]
                            [] f = "issue_topic" -> is[2]
                            [] f = "insight_title" -> ti
                            [] f = "insight_content" -> co
                            [] f = "insight_type" -> ty
                            [] f = "insight_score" -> sc
                            [] OTHER -> JAbsent]) :
             is \in IssueInputs, ti \in TitleInputs, co \in ContentInputs,
             ty \in TypeInputs, sc \in ScoreInputs }

\* questions: plain, issue-like with a complaint keyword, risk wording, a
\* complaint keyword alone, and issue-like with a complaint keyword next to a
\* menu or an operation keyword
Q_COMPLAINT_ONLY == <<"jp_kureemu", "handling">>
Q_MENU_COMPLAINT == <<"jp_menyuu", "jp_kujou", "jp_dousureba">>
Q_OPERATION_COMPLAINT == <<"jp_tejun", "jp_fuman", "jp_wakaranai">>
ExtractQuestions ==
    { Q_PLAIN, Q_COMPLAINT, <<"jp_risuku", "jp_imasugu">>,
      Q_COMPLAINT_ONLY, Q_MENU_COMPLAINT, Q_OPERATION_COMPLAINT }

ExtractInit ==
    /\ settings = SettingsFull
    /\ ChatIdle
    /\ TierIdle
    /\ CallIdle

\* one call of extract_issue_insight_from_ai_response
ExtractCall ==
    /\ extraction.pc = "none"
    /\ \E text \in ExtractTexts, block \in ExtractBlocks, question \in ExtractQuestions :
          extraction' =
              [ pc |-> "returned",
                answer |-> [text |-> text, block |-> block],
                question |-> question,
                out |-> extract_issue_insight_from_ai_response(
                            [text |-> text, block |-> block], question) ]
    /\ UNCHANGED <<chatVars, tierVars, backend>>

ExtractNext == ExtractCall

SpecExtract == ExtractInit /\ [][ExtractNext]_vars

(***************************************************************************)
(* Properties of the tier policy resolver                                  *)
(***************************************************************************)
TierRank(t) == CASE t = BASIC -> 1 [] t = STANDARD -> 2 [] t = PREMIUM -> 3

\* C7 as stated: for every tier t and every policy value p, recognised or
\* not, apply_tier_policy(t, p) is not higher than t.
C7_NeverRaisesAnyPolicy ==
    tierOp = "apply_tier_policy" => TierRank(tierOut) <= TierRank(tierIn)

\* C7 amended: for every tier t and every recognised policy (ALL,
\* STANDARD_MAX, BASIC_ONLY) the result is not higher than t; an unrecognised
\* policy value gives STANDARD, which is higher than t exactly when t is BASIC.
C7_NeverRaisesRecognisedPolicy ==
    tierOp = "apply_tier_policy" =>
        /\ policyIn \in AiTierPolicy => TierRank(tierOut) <= TierRank(tierIn)
        /\ policyIn \notin AiTierPolicy =>
              /\ tierOut = STANDARD
              /\ (TierRank(tierOut) > TierRank(tierIn)) <=> (tierIn = BASIC)

\* C7 witness: PREMIUM was lowered by a recognised policy
C7_Witness ==
    /\ tierOp = "apply_tier_policy"
    /\ policyIn = POLICY_STANDARD_MAX
    /\ tierIn = PREMIUM
    /\ tierOut = STANDARD

\* the reference table of applyPolicy
PolicyTable(t, p) ==
    CASE p = POLICY_ALL -> t
      [] p = POLICY_STANDARD_MAX /\ t = PREMIUM -> STANDARD
      [] p = POLICY_STANDARD_MAX /\ t # PREMIUM -> t
      [] p = POLICY_BASIC_ONLY -> BASIC
      [] OTHER -> STANDARD

\* C8: apply_tier_policy equals the reference table: ALL is the identity,
\* STANDARD_MAX turns PREMIUM into STANDARD and keeps the others, BASIC_ONLY
\* gives BASIC, and an unrecognised policy gives STANDARD (a tier is returned,
\* the caller is not failed).
C8_ApplyPolicyTable ==
    tierOp = "apply_tier_policy" =>
        /\ tierOut \in AiTier
        /\ tierOut = PolicyTable(tierIn, policyIn)

\* C8 witness: BASIC_ONLY forced a higher tier down to BASIC
C8_Witness ==
    /\ tierOp = "apply_tier_policy"
    /\ policyIn = POLICY_BASIC_ONLY
    /\ tierIn = PREMIUM
    /\ tierOut = BASIC

\* the documented purposes, by tier
DocBasic == {K_shift_planning, K_log_summary, K_simple_task, K_schedule}
DocStandard == {K_staff_qa, K_knowledge_search, K_customer_support, K_daily_report, K_default}
DocPremium == {K_management_decision, K_dx_report, K_strategic_planning,
               K_executive_summary, K_business_analysis}

\* two characters are the same letter in either case
SameLetter(a, b) ==
    \/ a = b
    \/ \E i \in 1..Len(UpperChars) :
          {a, b} = {UpperChars[i], LowerChars[i]}

\* case-insensitive equality of two strings
EqIgnoreCase(s, k) ==
    /\ Len(s) = Len(k)
    /\ \A i \in 1..Len(s) : SameLetter(s[i], k[i])

\* C9: get_tier_for_purpose returns the documented tier for every purpose of
\* the table compared case-insensitively, and STANDARD for every other string,
\* the empty string included.
C9_PurposeTable ==
    tierOp = "get_tier_for_purpose" =>
        /\ (\E k \in DocBasic : EqIgnoreCase(purposeIn, k)) => tierOut = BASIC
        /\ (\E k \in DocStandard : EqIgnoreCase(purposeIn, k)) => tierOut = STANDARD
        /\ (\E k \in DocPremium : EqIgnoreCase(purposeIn, k)) => tierOut = PREMIUM
        /\ (~ \E k \in DocBasic \cup DocStandard \cup DocPremium :
                EqIgnoreCase(purposeIn, k)) => tierOut = STANDARD

\* C9 witness: a purpose written in mixed case resolved to a tier other than
\* the default
C9_Witness ==
    /\ tierOp = "get_tier_for_purpose"
    /\ purposeIn = <<"S","c","h","E","d","u","l","e">>
    /\ tierOut = BASIC

(***************************************************************************)
(* Properties of the chat turn                                             *)
(***************************************************************************)
\* the conversation with this id is missing or belongs to somebody else
NotOwned(u, cid) ==
    \/ cid \notin 1..Len(conversations)
    \/ conversations[cid].user_id # u

\* worker w starts a request in this step
Starts(w) == req'[w] # req[w] /\ req'[w].turn = started + 1

\* C1, one step: a chat turn or a listing that names a conversation which is
\* missing or owned by another user ends in the step that starts it, with
\* not-found, with none of the conversation's messages and no reply, and
\* leaves every table as it was.
C1_RejectedStep ==
    \A w \in Workers :
        ( /\ Starts(w)
          /\ req'[w].kind \in {"chat", "read"}
          /\ req'[w].conversation_id # 0
          /\ NotOwned(req'[w].user, req'[w].conversation_id) )
        => /\ req'[w].pc = "done"
           /\ req'[w].response.status = HTTP_404_NOT_FOUND
           /\ req'[w].response.messages = <<>>
           /\ req'[w].response.reply = NoAnswer
           /\ dbVars' = dbVars

\* C1: conversation ownership. A chat turn that supplies a conversation id and
\* a listing of a conversation's messages end with not-found when the
\* conversation does not exist or is owned by another user; they return none
\* of its messages and write nothing.
C1_OwnershipRejects == [][C1_RejectedStep]_vars

\* C1 witness: a chat turn on an existing conversation of another user was
\* answered not-found while the conversation has messages
C1_Witness ==
    \E w \in Workers :
        /\ req[w].kind = "chat"
        /\ req[w].pc = "done"
        /\ req[w].conversation_id \in 1..Len(conversations)
        /\ conversations[req[w].conversation_id].user_id # req[w].user
        /\ req[w].response.status = HTTP_404_NOT_FOUND
        /\ \E k \in 1..Len(messages) :
              messages[k].conversation_id = req[w].conversation_id

\* the call of the model backend failed: the service was built and
\* generate_reply raised
BackendCallFailed(r) ==
    /\ r.kind = "chat"
    /\ r.service # NoService
    /\ r.failure # NoError

\* C2: whenever the backend call of a chat turn fails, in either mode, a usage
\* record of that turn with its error field filled is written before the
\* response is returned.
C2_FailureIsLogged ==
    \A w \in Workers :
        (req[w].pc = "done" /\ BackendCallFailed(req[w]))
        => \E k \in 1..Len(usageLogs) :
              /\ usageLogs[k].turn = req[w].turn
              /\ usageLogs[k].error # <<>>

\* C2 witness: a staff-QA turn whose backend call was refused with 401 has
\* been answered
C2_Witness ==
    \E w \in Workers :
        /\ req[w].pc = "done"
        /\ req[w].use_staff_qa
        /\ req[w].failure = ValueError(MsgAuthFailed)
        /\ req[w].response.status = HTTP_503_SERVICE_UNAVAILABLE

\* C3: whenever the backend call of a chat turn fails, in staff-QA mode and in
\* management mode, no assistant message of that turn is stored.
C3_NoAssistantMessageOnFailure ==
    \A w \in Workers :
        (req[w].pc = "done" /\ BackendCallFailed(req[w]))
        => ~ \E k \in 1..Len(messages) :
                /\ messages[k].turn = req[w].turn
                /\ messages[k].role = "assistant"

\* C3 witness: a management turn whose backend call failed has been answered
C3_Witness ==
    \E w \in Workers :
        /\ req[w].pc = "done"
        /\ ~req[w].use_staff_qa
        /\ BackendCallFailed(req[w])

\* a configuration error of the factory or the adapter: the credential or a
\* model identifier is missing
IsConfigError(e) ==
    \/ e = ValueError(MsgKeyNotSet)
    \/ e = ValueError(MsgKeyNotSetAdapter)
    \/ \E t \in AiTier : e = ValueError(MsgModelNotConfigured(t))

\* the provider refused the credential
IsAuthError(e) == e = ValueError(MsgAuthFailed)

\* C4: a configuration error of the factory or the adapter is answered with
\* 503 and every other runtime error of the dispatch with 500; never the
\* other way round.  (A credential refused by the provider is left to either
\* side.)
C4_ErrorStatus ==
    \A w \in Workers :
        (req[w].pc = "done" /\ req[w].kind = "chat" /\ req[w].failure # NoError)
        => /\ IsConfigError(req[w].failure)
                => req[w].response.status = HTTP_503_SERVICE_UNAVAILABLE
           /\ (~IsConfigError(req[w].failure) /\ ~IsAuthError(req[w].failure))
                => req[w].response.status = HTTP_500_INTERNAL_SERVER_ERROR

\* C4 witness: a staff-QA turn that met a missing credential has been answered
C4_Witness ==
    \E w \in Workers :
        /\ req[w].pc = "done"
        /\ req[w].use_staff_qa
        /\ req[w].failure = ValueError(MsgKeyNotSet)
        /\ req[w].response.status = HTTP_500_INTERNAL_SERVER_ERROR

\* the turns that have a stored message with this role
TurnsWith(ms, role) == { ms[k].turn : k \in { j \in 1..Len(ms) : ms[j].role = role } }

\* C5: atomic pair. In every committed state, and in every list of messages a
\* reader was given, the user message of a turn is there if and only if the
\* assistant message of the same turn is there.
C5_AtomicPair ==
    /\ TurnsWith(messages, "user") = TurnsWith(messages, "assistant")
    /\ \A w \in Workers :
          req[w].kind = "read"
          => TurnsWith(req[w].response.messages, "user")
               = TurnsWith(req[w].response.messages, "assistant")

\* C5 witness: while a turn has added both messages to its session and has
\* not committed, the owner listed the conversation and saw neither
C5_Witness ==
    \E w \in Workers : \E v \in Workers :
        /\ req[w].pc = "persisted"
        /\ Len(req[w].pending.messages) = 2
        /\ req[v].kind = "read"
        /\ req[v].conversation_id = req[w].conversation
        /\ req[v].response.status = 200
        /\ req[v].response.messages = <<>>

\* the tenant a user's requests belong to: the user's own, or the default
\* tenant for a user without one
RequesterTenant(u) ==
    IF UserRow(u).tenant_id # 0 THEN UserRow(u).tenant_id ELSE DEFAULT_TENANT_ID

\* the stored messages of one turn
MessagesOfTurn(t) == SelectSeq(messages, LAMBDA m : m.turn = t)

\* C6, the answered turn: the returned conversation is owned by the requester
\* in the requester's tenant and the turn stored two messages in it, the
\* request text as user and the returned reply as assistant
C6_RoundTripState ==
    \A w \in Workers :
        ( /\ req[w].kind = "chat"
          /\ req[w].pc = "done"
          /\ req[w].conversation_id = 0
          /\ req[w].response.status = HTTP_201_CREATED )
        => LET id == req[w].response.conversation_id
               ms == MessagesOfTurn(req[w].turn)
           IN  /\ id \in 1..Len(conversations)
               /\ conversations[id].user_id = req[w].user
               /\ conversations[id].tenant_id = RequesterTenant(req[w].user)
               /\ Len(ms) = 2
               /\ ms[1].role = "user"
               /\ ms[1].content.text = req[w].message
               /\ ms[1].conversation_id = id
               /\ ms[2].role = "assistant"
               /\ ms[2].content = req[w].response.reply
               /\ ms[2].conversation_id = id

\* C6, one step: a conversation is created only by the step that starts a
\* chat turn without a conversation id, and then exactly one, the one the
\* turn goes on with
C6_RoundTripStep ==
    /\ Len(conversations') \in {Len(conversations), Len(conversations) + 1}
    /\ Len(conversations') = Len(conversations) + 1
         => \E w \in Workers :
               /\ Starts(w)
               /\ req'[w].kind = "chat"
               /\ req'[w].conversation_id = 0
               /\ req'[w].conversation = Len(conversations')
    /\ \A w \in Workers :
          ( /\ req[w].pc = "persisted"
            /\ req'[w].pc = "done"
            /\ req'[w].response.status = HTTP_201_CREATED )
          => req'[w].response.conversation_id = req[w].conversation

\* C6: round trip. A successful chat turn without a conversation id creates
\* exactly one conversation, owned by the requester in the requester's
\* tenant, stores exactly two messages in it (user with the request text,
\* assistant with the returned reply) and returns the id of that conversation.
C6_RoundTrip == [](C6_RoundTripState) /\ [][C6_RoundTripStep]_vars

\* C6 witness: the administrator of the other tenant got the answer of a turn
\* that started without a conversation id
C6_Witness ==
    \E w \in Workers :
        /\ req[w].kind = "chat"
        /\ req[w].pc = "done"
        /\ req[w].user = 2
        /\ req[w].conversation_id = 0
        /\ req[w].response.status = HTTP_201_CREATED
        /\ Len(MessagesOfTurn(req[w].turn)) = 2

\* the policy of a tenant: the one of its settings row, ALL without a row
PolicyOf(row) == IF row.exists THEN row.ai_tier_policy ELSE POLICY_ALL

\* C10: for every chat turn, whatever the tenant's settings, the recorded tier
\* is T = apply_tier_policy(get_tier_for_purpose(purpose), tenant policy) and
\* the backend that is invoked is bound to the model configured for T.
C10_TierAndModel ==
    \A w \in Workers :
        (req[w].kind = "chat" /\ req[w].sent # NoPayload)
        => LET T == apply_tier_policy(get_tier_for_purpose(req[w].service.purpose),
                                      PolicyOf(req[w].row))
           IN  /\ req[w].service.effective_tier = T
               /\ req[w].sent.model = get_tier_config(settings, T).model

\* C10 witness: a management turn of a tenant whose policy is BASIC_ONLY has
\* sent its request to the provider
C10_Witness ==
    \E w \in Workers :
        /\ req[w].kind = "chat"
        /\ req[w].sent # NoPayload
        /\ ~req[w].use_staff_qa
        /\ req[w].row = SettingsRow(POLICY_BASIC_ONLY, 0)
        /\ req[w].service.effective_tier = BASIC
        /\ req[w].sent.model = settings.ANTHROPIC_MODEL_BASIC

\* C11: in a chat turn whose effective tier is T, the request sent to the
\* model backend carries T's model identifier, T's configured max tokens and
\* T's configured temperature.  Stated for the turns of a tenant that has a
\* settings row, whose backend is built for the effective tier.
C11_SentCarriesTierConfig ==
    \A w \in Workers :
        (req[w].kind = "chat" /\ req[w].sent # NoPayload /\ req[w].row.exists)
        => /\ req[w].sent.model =
                 get_tier_config(settings, req[w].service.effective_tier).model
           /\ req[w].sent.max_tokens =
                 get_tier_config(settings, req[w].service.effective_tier).max_tokens
           /\ req[w].sent.temperature =
                 get_tier_config(settings, req[w].service.effective_tier).temperature

\* C11 witness: a staff-QA turn of a tenant whose policy is BASIC_ONLY has
\* sent its request with the BASIC model and the staff-QA options
C11_Witness ==
    \E w \in Workers :
        /\ req[w].kind = "chat"
        /\ req[w].use_staff_qa
        /\ req[w].row = SettingsRow(POLICY_BASIC_ONLY, 0)
        /\ req[w].service.effective_tier = BASIC
        /\ req[w].sent.model = settings.ANTHROPIC_MODEL_BASIC
        /\ req[w].sent.max_tokens = AI_MAX_TOKENS_STAFF
        /\ req[w].sent.temperature = AI_TEMPERATURE_STAFF

(***************************************************************************)
(* Properties of the backend factory and the adapter                      *)
(***************************************************************************)
\* the environment variable that holds a tier's model identifier
ModelSettingSuffix == [basic |-> "BASIC", standard |-> "STANDARD", premium |-> "PREMIUM"]
NamesModelSetting(msg, tier) ==
    \E i \in 1..(Len(msg) - 1) :
        msg[i] = "ANTHROPIC_MODEL_" /\ msg[i + 1] = ModelSettingSuffix[tier]

\* C12: create_for_purpose_with_policy returns a backend only if the model
\* identifier configured for the effective tier is non-empty and the
\* credential is present; otherwise it raises a configuration error that
\* names a missing setting, no adapter exists and nothing is posted.
C12_BackendOnlyWhenConfigured ==
    backend.op = "create_for_purpose_with_policy"
    => LET T == apply_tier_policy(get_tier_for_purpose(backend.purpose),
                                  backend.tier_policy)
           model == get_tier_config(settings, T).model
           key == settings.ANTHROPIC_API_KEY
       IN  /\ backend.made.ok => (model # None /\ key # None)
           /\ (model = None \/ key = None)
              => /\ ~backend.made.ok
                 /\ backend.pc = "failed"
                 /\ backend.made.value = None
                 /\ backend.posts = 0
                 /\ backend.made.error.type = "ValueError"
                 /\ IF model = None
                    THEN NamesModelSetting(backend.made.error.msg, T)
                    ELSE Contains(backend.made.error.msg, TOK_API_KEY)
           /\ (model # None /\ key # None)
              => /\ backend.made.ok
                 /\ backend.made.value.model = model
                 /\ backend.made.value.api_key = key

\* C12 witness: the factory was asked for management_decision under
\* BASIC_ONLY in a deployment without BASIC model identifier, and raised
C12_Witness ==
    /\ backend.op = "create_for_purpose_with_policy"
    /\ backend.purpose = K_management_decision
    /\ backend.tier_policy = POLICY_BASIC_ONLY
    /\ settings.ANTHROPIC_MODEL_BASIC = None
    /\ settings.ANTHROPIC_API_KEY # None
    /\ backend.pc = "failed"
    /\ NamesModelSetting(backend.made.error.msg, BASIC)

\* C13: for every generate_reply call the max_tokens sent to the provider is
\* at most 8000; a requested value above 8000 is replaced by exactly 8000 and
\* the request is still posted; a requested value from 1 to 8000 is sent
\* unchanged.
C13_MaxTokensCapped ==
    backend.pc \in {"sent", "returned"}
    => /\ backend.payload.ok => backend.payload.value.max_tokens <= 8000
       /\ (backend.made.value.api_key # None /\ backend.options.max_tokens > 8000)
          => /\ backend.payload.ok
             /\ backend.payload.value.max_tokens = 8000
             /\ backend.posts = 1
       /\ (backend.made.value.api_key # None /\ backend.options.max_tokens \in 1..8000)
          => /\ backend.payload.ok
             /\ backend.payload.value.max_tokens = backend.options.max_tokens
             /\ backend.posts = 1

\* C13 witness: generate_reply was called with max_tokens 9000 and the
\* request was posted with 8000
C13_Witness ==
    /\ backend.pc = "sent"
    /\ backend.options.max_tokens = 9000
    /\ backend.payload.ok
    /\ backend.payload.value.max_tokens = 8000

\* the provider outcomes the adapter turns into errors of its own
MappedKinds == {"401", "429", "400", "timeout"}

\* C14: the adapter maps HTTP 401, 429, 400 and a timeout to error classes
\* its caller can tell apart (the class raised for one of them is raised for
\* no other), the error for 400 carries the remote detail, and a call that
\* reached the provider has posted exactly one request.
C14_ErrorClassesDistinct ==
    (backend.pc = "returned" /\ backend.payload.ok)
    => /\ backend.posts = 1
       /\ backend.outcome.kind \in MappedKinds
          => /\ ~backend.result.ok
             /\ \A o \in BackendOutcomes :
                   (o.kind \in MappedKinds /\ o.kind # backend.outcome.kind)
                   => AdapterResponse(o).error.type # backend.result.error.type
       /\ backend.outcome.kind = "400"
          => Contains(backend.result.error.msg, backend.outcome.detail)

\* C14 witness: the provider timed out on the one request of a call and the
\* adapter raised ValueError, as it does for status 401
C14_Witness ==
    /\ backend.pc = "returned"
    /\ backend.posts = 1
    /\ backend.outcome.kind = "timeout"
    /\ backend.result.error = ValueError(MsgTimeout)
    /\ backend.result.error.type =
          AdapterResponse([kind |-> "401", answer |-> NoAnswer, detail |-> None]).error.type

(***************************************************************************)
(* Properties of the chat turn, continued                                  *)
(***************************************************************************)
\* the provider answered the request of this turn and nothing but the write
\* of the usage record can have gone wrong
ModelCallSucceeded(r) ==
    /\ r.kind = "chat"
    /\ r.pc = "done"
    /\ r.sent # NoPayload
    /\ r.failure = NoError
    /\ r.answer # NoAnswer
    /\ r.crash \in {NoError, OperationalError}

\* C15: a failure to write the usage record never fails the turn: whenever
\* the model call succeeded, the turn has persisted its message pair and
\* returned its reply.
C15_UsageWriteNeverFailsTurn ==
    \A w \in Workers :
        ModelCallSucceeded(req[w])
        => /\ req[w].response.status = HTTP_201_CREATED
           /\ req[w].response.reply = req[w].answer
           /\ Len(MessagesOfTurn(req[w].turn)) = 2

\* C15 witness: the model call of a turn succeeded, the write of its usage
\* record failed, and the turn ended with status 500 and without messages
C15_Witness ==
    \E w \in Workers :
        /\ ModelCallSucceeded(req[w])
        /\ req[w].crash = OperationalError
        /\ req[w].answer = A_PLAIN
        /\ req[w].response.status = HTTP_500_INTERNAL_SERVER_ERROR
        /\ MessagesOfTurn(req[w].turn) = <<>>

\* the order of the steps of a chat turn
StepOrder ==
    << "resolve_tenant", "resolve_scope", "load_or_create_conversation",
       "assemble_context", "select_mode", "dispatch_model", "persist_turn",
       "extract", "log_usage", "respond" >>

\* C16: every successful chat turn passes through its steps in the order
\* resolve tenant, resolve scope, load or create conversation, assemble
\* context, select mode, dispatch, persist the messages, extract, log usage,
\* respond.
C16_StepOrder ==
    \A w \in Workers :
        (req[w].kind = "chat" /\ req[w].response.status = HTTP_201_CREATED)
        => req[w].steps = StepOrder

\* C16 witness: a turn has succeeded and its usage record was added to the
\* session before its messages and before the extraction
C16_Witness ==
    \E w \in Workers :
        /\ req[w].kind = "chat"
        /\ req[w].response.status = HTTP_201_CREATED
        /\ req[w].steps =
              << "resolve_tenant", "resolve_scope", "load_or_create_conversation",
                 "assemble_context", "select_mode", "dispatch_model", "log_usage",
                 "persist_turn", "extract", "respond" >>

\* the turn has run the step
Reached(r, step) == \E i \in 1..Len(r.steps) : r.steps[i] = step

\* C17: when the request specifies a mode, that mode is used whatever the
\* user's role; when it specifies none, the roles staff and manager get
\* staff-QA mode (purpose staff_qa) and every other role gets management mode
\* (purpose management_decision).
C17_ModeSelection ==
    \A w \in Workers :
        (req[w].kind = "chat" /\ Reached(req[w], "select_mode"))
        => /\ req[w].mode = "staff_qa" => req[w].use_staff_qa
           /\ req[w].mode = "management" => ~req[w].use_staff_qa
           /\ req[w].mode = None
              => (req[w].use_staff_qa
                    <=> UserRow(req[w].user).role \in {"staff", "manager"})
           /\ req[w].service # NoService
              => req[w].service.purpose =
                    IF req[w].use_staff_qa THEN K_staff_qa ELSE K_management_decision

\* C17 witness: the staff member asked for management mode and the turn was
\* served in staff-QA mode with purpose staff_qa
C17_Witness ==
    \E w \in Workers :
        /\ req[w].kind = "chat"
        /\ UserRow(req[w].user).role = "staff"
        /\ req[w].mode = "management"
        /\ req[w].use_staff_qa
        /\ req[w].service.purpose = K_staff_qa
        /\ req[w].sent # NoPayload

(***************************************************************************)
(* Properties of the extractor                                             *)
(***************************************************************************)
\* the fenced block is an object whose insight fields are all there with the
\* JSON types the prompt asks for, and whose issue fields, if any, are
\* strings
WellFormedInsightBlock(block) ==
    /\ block.kind = "object"
    /\ \A f \in {"issue_title", "issue_description", "issue_topic"} :
          block.obj[f].t \in {"absent", "str"}
    /\ block.obj["insight_title"].t = "str"
    /\ block.obj["insight_content"].t = "str"
    /\ block.obj["insight_type"].t = "str"
    /\ IsEnumValue(InsightTypeValues, StrLower(block.obj["insight_type"].s))
    /\ block.obj["insight_score"].t = "int"

Clamp(n) == IF n < 0 THEN 0 ELSE IF n > 100 THEN 100 ELSE n

\* C18: when the model output has a well-formed block with insight fields
\* and an integer insight_score s, the extractor returns an insight candidate
\* with the block's title, content and type and with s clamped to [0,100]
\* (85 gives 85), whatever keywords the question and the answer text hold.
C18_StructuredInsightWins ==
    (extraction.pc = "returned" /\ WellFormedInsightBlock(extraction.answer.block))
    => /\ extraction.out.ok
       /\ extraction.out.value.insight =
             [ present |-> TRUE,
               title |-> extraction.answer.block.obj["insight_title"],
               content |-> extraction.answer.block.obj["insight_content"],
               type |-> EnumOf(InsightTypeValues,
                               StrLower(extraction.answer.block.obj["insight_type"].s)),
               score |-> Clamp(extraction.answer.block.obj["insight_score"].n) ]
       /\ extraction.answer.block.obj["insight_score"].n = 85
          => extraction.out.value.insight.score = 85

\* C18 witness: the block says score 85 while the answer text and the
\* question hold a risk keyword and an urgency keyword (heuristic score 90),
\* and the candidate returned has score 85
C18_Witness ==
    /\ extraction.pc = "returned"
    /\ WellFormedInsightBlock(extraction.answer.block)
    /\ extraction.answer.block.obj["insight_score"] = JInt(85)
    /\ extraction.answer.text = <<"jp_risuku", "jp_imasugu">>
    /\ HeuristicScore(TextLower(extraction.answer.text)) = 90
    /\ extraction.question = <<"jp_risuku", "jp_imasugu">>
    /\ extraction.out.ok
    /\ extraction.out.value.insight.score = 85

\* C19: the extractor returns an insight candidate only if its score is at
\* least 60, on the structured path and on the heuristic path: a candidate
\* with score 59 or less is never returned, and a block that is well formed
\* with score 60 gives a candidate.
C19_InsightOnlyFromSixty ==
    (extraction.pc = "returned" /\ extraction.out.ok)
    => /\ extraction.out.value.insight.present
          => extraction.out.value.insight.score >= 60
       /\ (/\ WellFormedInsightBlock(extraction.answer.block)
           /\ extraction.answer.block.obj["insight_score"].n = 60)
          => /\ extraction.out.value.insight.present
             /\ extraction.out.value.insight.score = 60

\* C19 witness: the block of the answer says score 59 and the extractor
\* returned an insight candidate with score 59
C19_Witness ==
    /\ extraction.pc = "returned"
    /\ WellFormedInsightBlock(extraction.answer.block)
    /\ extraction.answer.block.obj["insight_score"] = JInt(59)
    /\ extraction.out.ok
    /\ extraction.out.value.insight.present
    /\ extraction.out.value.insight.score = 59

(***************************************************************************)
(* Properties of the records a chat turn creates                           *)
(***************************************************************************)
\* the Insight records the turn has created
InsightsOfTurn(t) == SelectSeq(insights, LAMBDA i : i.turn = t)

\* the turn has ended with its commit, and the extractor had returned an
\* insight candidate scored below 60 for its answer
LowScoredTurn(r) ==
    /\ r.kind = "chat"
    /\ r.response.status = HTTP_201_CREATED
    /\ extract_issue_insight_from_ai_response(r.answer, r.message).ok
    /\ extract_issue_insight_from_ai_response(r.answer, r.message).value.insight.present
    /\ extract_issue_insight_from_ai_response(r.answer, r.message).value.insight.score < 60

\* C20: every Insight record created by a chat turn has a score within
\* [60,100] and no creator, and a turn whose extracted insight has a score
\* below 60 creates no Insight record.
C20_InsightRecords ==
    /\ \A i \in 1..Len(insights) :
          /\ insights[i].score \in 60..100
          /\ insights[i].created_by = 0
    /\ \A w \in Workers :
          LowScoredTurn(req[w]) => InsightsOfTurn(req[w].turn) = <<>>

\* C20 witness: one turn has stored the insight scored 85 of its answer, and
\* another turn whose answer carried an insight scored 59 has ended without
\* an Insight record
C20_Witness ==
    /\ \E i \in 1..Len(insights) : insights[i].score = 85 /\ insights[i].created_by = 0
    /\ \E w \in Workers :
          /\ LowScoredTurn(req[w])
          /\ req[w].answer = A_LOW_SCORE
          /\ InsightsOfTurn(req[w].turn) = <<>>

\* the fenced block is not well formed: json.loads rejects it, or it is an
\* object with a field of the wrong JSON type
WrongTypedField(obj) ==
    \/ obj["insight_score"].t \notin {"absent", "int"}
    \/ obj["issue_topic"].t \notin {"absent", "str"}
    \/ obj["insight_type"].t \notin {"absent", "str"}
    \/ \E f \in {"issue_title", "issue_description", "insight_title", "insight_content"} :
          obj[f].t \notin {"absent", "str"}
IllFormedBlock(block) ==
    \/ block.kind = "malformed"
    \/ block.kind = "object" /\ WrongTypedField(block.obj)

\* C21 as stated: for every answer whose fenced block is not well formed
\* (invalid JSON, or valid JSON with a non-numeric insight_score or a
\* non-string issue_topic), the extractor returns normally and its result is
\* the heuristic result for the same question and answer.
C21_IllFormedBlockFallsBack ==
    (extraction.pc = "returned" /\ IllFormedBlock(extraction.answer.block))
    => /\ extraction.out.ok
       /\ extraction.out = ExtractHeuristic(extraction.answer, extraction.question)

\* C21 witness: the block is valid JSON with insight fields and the string
\* "high" as insight_score, and the call ends with a TypeError
C21_Witness ==
    /\ extraction.pc = "returned"
    /\ extraction.answer.block.kind = "object"
    /\ HasKey(extraction.answer.block.obj, "insight_title")
    /\ extraction.answer.block.obj["insight_score"] = JStr(<<"high">>)
    /\ ~extraction.out.ok
    /\ extraction.out.error = TypeError

\* the part of C21 that the code keeps: text that json.loads rejects gives
\* the heuristic result
C21_MalformedJsonFallsBack ==
    (extraction.pc = "returned" /\ extraction.answer.block.kind = "malformed")
    => extraction.out = ExtractHeuristic(extraction.answer, extraction.question)

(***************************************************************************)
(* Properties of the extraction inside the chat turn                       *)
(***************************************************************************)
\* the model call of the turn succeeded and the turn has ended, with or
\* without an exception raised by the extraction
TurnEndedAfterReply(r) ==
    /\ r.kind = "chat"
    /\ r.pc = "done"
    /\ r.sent # NoPayload
    /\ r.failure = NoError
    /\ r.answer # NoAnswer
    /\ r.crash \in {NoError, TypeError, AttributeError}

\* C22: the extraction never blocks the response path: once the model call
\* succeeded the turn returns that reply and persists its message pair,
\* whatever the extraction produces and also when it fails.
C22_ExtractionNeverBlocks ==
    \A w \in Workers :
        TurnEndedAfterReply(req[w])
        => /\ req[w].response.status = HTTP_201_CREATED
           /\ req[w].response.reply = req[w].answer
           /\ \E i, j \in 1..Len(messages) :
                 /\ i < j
                 /\ messages[i].turn = req[w].turn /\ messages[i].role = "user"
                 /\ messages[j].turn = req[w].turn /\ messages[j].role = "assistant"
                 /\ messages[j].content = req[w].answer

\* C22 witness: the model answered with a block whose insight_score is a
\* string, the extractor raised TypeError, and the turn ended with status
\* 500 and none of its messages stored
C22_Witness ==
    \E w \in Workers :
        /\ TurnEndedAfterReply(req[w])
        /\ req[w].answer = A_BAD_SCORE
        /\ req[w].crash = TypeError
        /\ req[w].response.status = HTTP_500_INTERNAL_SERVER_ERROR
        /\ \A i \in 1..Len(messages) : messages[i].turn # req[w].turn

(***************************************************************************)
(* Properties of the extractor, continued                                  *)
(***************************************************************************)
\* the extractor was called on an answer without fenced block
HeuristicCall == extraction.pc = "returned" /\ extraction.answer.block.kind = "none"

HasComplaintKeyword(question) == AnyKeyword(TextLower(question), COMPLAINT_KEYWORDS)
HasIssueKeyword(question) == AnyKeyword(TextLower(question), ISSUE_KEYWORDS)
HasMenuOrOperationKeyword(question) ==
    AnyKeyword(TextLower(question), MENU_KEYWORDS \cup OPERATION_KEYWORDS)

\* C23 as stated: without structured block, whenever the question contains a
\* complaint keyword the extractor returns an issue candidate with topic
\* CUSTOMER_COMPLAINT.
C23_ComplaintKeywordGivesComplaintIssue ==
    (HeuristicCall /\ HasComplaintKeyword(extraction.question))
    => /\ extraction.out.ok
       /\ extraction.out.value.issue.present
       /\ extraction.out.value.issue.topic = TOPIC_CUSTOMER_COMPLAINT

\* C23 amended: without structured block, a question that contains a
\* complaint keyword gives an issue candidate exactly when it also contains
\* an issue keyword; the candidate's topic is CUSTOMER_COMPLAINT when the
\* question has no menu and no operation keyword, and MENU or OPERATION
\* otherwise.
C23_ComplaintIssueWhenIssueLike ==
    (HeuristicCall /\ HasComplaintKeyword(extraction.question))
    => /\ extraction.out.ok
       /\ extraction.out.value.issue.present <=> HasIssueKeyword(extraction.question)
       /\ (HasIssueKeyword(extraction.question)
           /\ ~HasMenuOrOperationKeyword(extraction.question))
          => extraction.out.value.issue.topic = TOPIC_CUSTOMER_COMPLAINT
       /\ (HasIssueKeyword(extraction.question)
           /\ HasMenuOrOperationKeyword(extraction.question))
          => extraction.out.value.issue.topic \in {TOPIC_MENU, TOPIC_OPERATION}

\* C23 witness: the question has a complaint keyword and an issue keyword and
\* neither a menu nor an operation keyword, the answer has no block, and the
\* issue candidate returned has topic CUSTOMER_COMPLAINT
C23_Witness ==
    /\ HeuristicCall
    /\ extraction.question = Q_COMPLAINT
    /\ HasComplaintKeyword(extraction.question)
    /\ HasIssueKeyword(extraction.question)
    /\ ~HasMenuOrOperationKeyword(extraction.question)
    /\ extraction.out.ok
    /\ extraction.out.value.issue.present
    /\ extraction.out.value.issue.topic = TOPIC_CUSTOMER_COMPLAINT

(***************************************************************************)
(* Properties of the context assembly                                      *)
(***************************************************************************)
\* the service of the turn was built, so its context was assembled
ContextAssembled(r) == r.kind = "chat" /\ r.service # NoService

Commits(w) ==
    /\ req[w].pc = "persisted"
    /\ req'[w].pc = "done"
    /\ req'[w].response.status = HTTP_201_CREATED

\* the commit of a turn appends the turn's user message and then its
\* assistant message to the stored messages, keeps every message stored
\* before, and leaves the conversation's updated_at at the value this turn
\* wrote
C25_CommitStep ==
    \A w \in Workers :
        Commits(w)
        => /\ Len(messages') = Len(messages) + 2
           /\ SubSeq(messages', 1, Len(messages)) = messages
           /\ messages'[Len(messages) + 1].role = "user"
           /\ messages'[Len(messages) + 1].content.text = req[w].message
           /\ messages'[Len(messages) + 2].role = "assistant"
           /\ messages'[Len(messages) + 2].content = req[w].answer
           /\ \A i \in {1, 2} :
                 /\ messages'[Len(messages) + i].conversation_id = req[w].conversation
                 /\ messages'[Len(messages) + i].turn = req[w].turn
           /\ conversations'[req[w].conversation].updated_at = req[w].pending.touch

\* C25: turns on the same conversation are not serialized and lose nothing:
\* under every interleaving of two successful turns on one conversation both
\* message pairs are stored, each turn's user message before its assistant
\* message, and the conversation's updated_at ends as the value written by
\* the turn that committed last.
C25_ConcurrentTurnsLoseNothing == [][C25_CommitStep]_vars

\* C25 witness: two turns on conversation 1 ran at the same time, the turn
\* answered first committed last; the conversation has its two old and four
\* new messages, each turn's user message before its assistant message, and
\* updated_at is the older of the two timestamps written
C25_Witness ==
    /\ \A w \in Workers :
          /\ req[w].kind = "chat"
          /\ req[w].conversation = 1
          /\ req[w].response.status = HTTP_201_CREATED
    /\ Len(ConversationMessageIds(1)) = 6
    /\ \A t \in {1, 2} :
          \E i, j \in 3..6 :
             /\ j = i + 1
             /\ messages[i].turn = t /\ messages[i].role = "user"
             /\ messages[j].turn = t /\ messages[j].role = "assistant"
    /\ conversations[1].updated_at = messages[6].created_at
    /\ messages[6].created_at < messages[4].created_at

(***************************************************************************)
(* The reference computation of the heuristic insight score                *)
(***************************************************************************)
\* the first keyword family found in the lower-cased answer, in the order
\* risk, opportunity, improvement
RefFamily(t) ==
    CASE AnyKeyword(t, RISK_KEYWORDS) -> "risk"
      [] ~AnyKeyword(t, RISK_KEYWORDS) /\ AnyKeyword(t, OPPORTUNITY_KEYWORDS) -> "opportunity"
      [] ~AnyKeyword(t, RISK_KEYWORDS \cup OPPORTUNITY_KEYWORDS)
         /\ AnyKeyword(t, IMPROVEMENT_KEYWORDS) -> "improvement"
      [] OTHER -> "none"
RefBaseScore(t) ==
    CASE RefFamily(t) = "risk" -> 70
      [] RefFamily(t) = "opportunity" -> 65
      [] RefFamily(t) = "improvement" -> 60
      [] OTHER -> 50
RefType(t) ==
    CASE RefFamily(t) = "risk" -> TYPE_RISK
      [] RefFamily(t) = "opportunity" -> TYPE_OPPORTUNITY
      [] OTHER -> TYPE_IMPROVEMENT
RefAfterUrgency(t) ==
    IF AnyKeyword(t, URGENCY_KEYWORDS)
    THEN (IF RefBaseScore(t) + 20 > 100 THEN 100 ELSE RefBaseScore(t) + 20)
    ELSE RefBaseScore(t)
RefScore(t) ==
    IF AnyKeyword(t, TRIVIAL_KEYWORDS)
    THEN (IF RefAfterUrgency(t) - 10 < 0 THEN 0 ELSE RefAfterUrgency(t) - 10)
    ELSE RefAfterUrgency(t)

\* C26: on the heuristic path the insight score is the reference score: base
\* 70 RISK, 65 OPPORTUNITY, 60 IMPROVEMENT by the first family found in that
\* order, else 50 IMPROVEMENT; plus 20 capped at 100 for urgency wording,
\* then minus 10 floored at 0 for triviality wording.  A candidate is
\* returned exactly when that score is at least 60, with that score and
\* type, and the score lies in 0..100.
C26_HeuristicScoreIsReference ==
    (extraction.pc = "returned" /\ extraction.answer.block.kind # "object")
    => /\ extraction.out.ok
       /\ RefScore(TextLower(extraction.answer.text)) \in 0..100
       /\ extraction.out.value.insight.present
          <=> RefScore(TextLower(extraction.answer.text)) >= 60
       /\ extraction.out.value.insight.present
          => /\ extraction.out.value.insight.score
                   = RefScore(TextLower(extraction.answer.text))
             /\ extraction.out.value.insight.type
                   = RefType(TextLower(extraction.answer.text))
             /\ extraction.out.value.insight.score \in 60..100

\* C26 witness: the answer has no block and holds a risk keyword and an
\* opportunity keyword; the candidate returned is a RISK scored 70.  (A
\* text with an improvement and a triviality keyword, score 50, gives none.)
C26_Witness ==
    /\ extraction.pc = "returned"
    /\ extraction.answer.block.kind = "none"
    /\ extraction.answer.text = <<"jp_kikai", "jp_risuku">>
    /\ extraction.out.ok
    /\ extraction.out.value.insight.present
    /\ extraction.out.value.insight.type = TYPE_RISK
    /\ extraction.out.value.insight.score = 70
    /\ extract_issue_insight_from_ai_response(
           [text |-> <<"jp_kaizen", "jp_sukoshi">>, block |-> NoBlock],
           extraction.question).value.insight = NoInsight

(***************************************************************************)
(* Properties of the prompt                                                *)
(***************************************************************************)
\* worker w starts a chat turn in this step and the request goes out to the
\* provider
Dispatches(w) ==
    /\ req[w].pc \in {"idle", "done"}
    /\ req'[w].pc = "waiting"
    /\ req'[w].kind = "chat"

\* C27 as a step: when a turn on an existing conversation with stored
\* messages is sent to the provider, the prompt quotes stored messages of
\* that conversation: at least one, each of them a message of the
\* conversation, ending with the latest one.
C27_DispatchStep ==
    \A w \in Workers :
        (Dispatches(w)
         /\ req'[w].conversation_id # 0
         /\ ConversationMessageIds(req'[w].conversation) # <<>>)
        => /\ req'[w].prompt.history # <<>>
           /\ \A i \in 1..Len(req'[w].prompt.history) :
                 messages[req'[w].prompt.history[i]].conversation_id = req'[w].conversation
           /\ req'[w].prompt.history[Len(req'[w].prompt.history)]
                 = ConversationMessageIds(req'[w].conversation)[
                       Len(ConversationMessageIds(req'[w].conversation))]

\* C27: for a turn on an existing conversation that already has messages,
\* the prompt sent to the backend is built from the conversation's prior
\* messages, in staff-QA mode and in management mode alike.
C27_PromptHoldsHistory == [][C27_DispatchStep]_vars

\* C27 witness: the administrator's second turn, on their own conversation
\* with its two stored messages, is with the provider in management mode and
\* its prompt quotes no stored message
C27_Witness ==
    \E w \in Workers :
        /\ req[w].kind = "chat"
        /\ req[w].pc = "waiting"
        /\ req[w].user = 2
        /\ ~req[w].use_staff_qa
        /\ req[w].conversation_id = 1
        /\ Len(ConversationMessageIds(1)) = 2
        /\ req[w].prompt.history = <<>>

\* the part of C27 that the code keeps: in staff-QA mode the prompt quotes
\* the latest stored messages of the conversation, at most three
C27_StaffStep ==
    \A w \in Workers :
        (Dispatches(w) /\ req'[w].use_staff_qa)
        => req'[w].prompt.history = LastN(ConversationMessageIds(req'[w].conversation), 3)
C27_StaffPromptHoldsHistory == [][C27_StaffStep]_vars

(***************************************************************************)
(* Tenant isolation of the knowledge context                               *)
(***************************************************************************)
\* C28: every knowledge item quoted in the prompt of a turn belongs to the
\* tenant of the requesting user; no request, also none that names a
\* business unit of another tenant or that matches a company-wide item of
\* another tenant, sends another tenant's item to the backend.
C28_KnowledgeOfOwnTenantOnly ==
    \A w \in Workers :
        (req[w].kind = "chat" /\ req[w].sent # NoPayload)
        => \A i \in 1..Len(req[w].prompt.knowledge) :
              KnowledgeItemRow(req[w].prompt.knowledge[i]).tenant_id = req[w].tenant_id

\* C28 witness: the staff member of the default tenant has named the gas
\* unit of the other tenant and asked about complaints, and the request sent
\* to the provider quotes that unit's item, which belongs to the other
\* tenant
C28_Witness ==
    \E w \in Workers :
        /\ req[w].kind = "chat"
        /\ req[w].sent # NoPayload
        /\ req[w].user = 1
        /\ req[w].tenant_id = DEFAULT_TENANT_ID
        /\ req[w].business_unit_id_in = 2
        /\ req[w].prompt.knowledge = <<3>>
        /\ KnowledgeItemRow(3).tenant_id = OTHER_TENANT_ID

\* C28 second witness: without naming a business unit, the staff member's
\* prompt quotes the company-wide item of the other tenant
C28_WitnessCompanyWide ==
    \E w \in Workers :
        /\ req[w].kind = "chat"
        /\ req[w].sent # NoPayload
        /\ req[w].user = 1
        /\ req[w].business_unit_id_in = 0
        /\ \E i \in 1..Len(req[w].prompt.knowledge) : req[w].prompt.knowledge[i] = 4
        /\ KnowledgeItemRow(4).tenant_id = OTHER_TENANT_ID
        /\ KnowledgeItemRow(4).business_unit_id = 0

(***************************************************************************)
(* Frame of a failed turn                                                  *)
(***************************************************************************)
\* the turn has ended with an error raised by the dispatch: the service
\* could not be built, the backend refused the request, or the provider
\* failed
FailedAtDispatch(r) ==
    /\ r.kind = "chat"
    /\ r.pc = "done"
    /\ r.failure # NoError
    /\ r.response.status \in {HTTP_500_INTERNAL_SERVER_ERROR, HTTP_503_SERVICE_UNAVAILABLE}

\* C29: a chat turn that ends with an error at dispatch leaves the stored
\* state as it was before the request: a failed turn that came without
\* conversation id leaves no new conversation, and no message, issue or
\* insight of the turn is stored.
C29_FailedTurnLeavesNoTrace ==
    \A w \in Workers :
        FailedAtDispatch(req[w])
        => /\ ~(req[w].created /\ req[w].conversation \in 1..Len(conversations))
           /\ \A i \in 1..Len(messages) : messages[i].turn # req[w].turn
           /\ req[w].created
              => \A i \in 1..Len(issues) : issues[i].conversation_id # req[w].conversation
           /\ \A i \in 1..Len(insights) : insights[i].turn # req[w].turn

\* C29 witness: a staff-QA turn without conversation id has ended with
\* status 503 after the provider failed, and the conversation it created is
\* stored, without any message
C29_Witness ==
    \E w \in Workers :
        /\ FailedAtDispatch(req[w])
        /\ req[w].use_staff_qa
        /\ req[w].sent # NoPayload
        /\ req[w].conversation_id = 0
        /\ req[w].created
        /\ req[w].conversation \in 1..Len(conversations)
        /\ conversations[req[w].conversation].user_id = req[w].user
        /\ ConversationMessageIds(req[w].conversation) = <<>>

\* the part of C29 that the code keeps: a turn that failed at dispatch
\* stores no message and no insight
C29_FailedTurnStoresNoRows ==
    \A w \in Workers :
        FailedAtDispatch(req[w])
        => /\ \A i \in 1..Len(messages) : messages[i].turn # req[w].turn
           /\ \A i \in 1..Len(insights) : insights[i].turn # req[w].turn

(***************************************************************************)
(* Issues created by chat turns                                            *)
(***************************************************************************)
\* the stored issues i and j are similar in the sense of the duplicate
\* check: same business unit, and the first 50 characters of one title occur
\* in the other title or the first 100 characters of one description in the
\* other description
SimilarIssues(i, j) ==
    /\ issues[i].business_unit_id = issues[j].business_unit_id
    /\ \/ IsInfix(Prefix(issues[j].title, 50), issues[i].title)
       \/ IsInfix(Prefix(issues[j].description, 100), issues[i].description)

C30_IssueFields ==
    \A i \in 1..Len(issues) :
        /\ issues[i].status = "open"
        /\ issues[i].conversation_id \in 1..Len(conversations)
        /\ issues[i].created_by_user_id = conversations[issues[i].conversation_id].user_id
====
